---- MODULE Spec2Model ----
(***************************************************************************)
(* A model of the LLM client of b__d (src/unnamed/part_001): the tool      *)
(* registry and its permission mode, the conversation loop chat() /        *)
(* processResponse() / continueConversation(), and the edit engine of      *)
(* executeEditFile() with applyUnifiedDiff() and the skip-comment          *)
(* reconciliation.                                                         *)
(*                                                                         *)
(* A JavaScript string is a sequence of one-character strings, so that     *)
(* split, join, trim, startsWith, substring and the regular expressions of *)
(* the source are computed and not assumed.  Indices into arrays are       *)
(* 0-based as in the source; At(s, i) reads element i.                     *)
(***************************************************************************)
EXTENDS Integers, Sequences, FiniteSets, TLC

VARIABLES
    mode,        \* this.mode
    tools,       \* this.tools: the names of the tools offered to the LLM
    fs,          \* the filesystem: path -> <<>> (absent) or <<content>>
    effects,     \* side effects performed so far: writes, unlinks, spawns
    events,      \* events emitted so far (tool:start / tool:complete / tool:error)
    maxIterations, \* this.maxIterations
    messages,    \* the conversation array passed to chat()
    pc,          \* position of the chat() control flow
    iteration,   \* chat()'s local counter
    requests,    \* number of callLLM round trips issued by this chat()
    pending,     \* tool calls of the current response not yet executed
    toolResults, \* processResponse's local toolResults array
    budget,      \* tool calls the modelled LLM may still request
    outcome,     \* what chat() returned or threw
    lastCall,    \* the last direct handler call and its result
    calls,       \* number of direct handler calls made
    ud,          \* applyUnifiedDiff: arguments and return value
    rc,          \* skip-comment reconciliation: arguments and final state
    procs        \* the child processes spawned, and the promise awaiting each

vars == <<mode, tools, fs, effects, events, maxIterations, messages, pc, iteration,
          requests, pending, toolResults, budget, outcome, lastCall, calls, ud, rc,
          procs>>

(***************************************************************************)
(* Strings                                                                 *)
(***************************************************************************)
At(s, i) == s[i + 1]

Min(a, b) == IF a < b THEN a ELSE b

Max(a, b) == IF a > b THEN a ELSE b

\* The characters String.prototype.trim() removes, among those the model uses.
WhiteSpace == {" ", "\t", "\n", "\r"}

StartsWith(s, p) == Len(s) >= Len(p) /\ SubSeq(s, 1, Len(p)) = p

\* s.substring(n)
Substring(s, n) == SubSeq(s, n + 1, Len(s))

RECURSIVE TrimStart(_)
TrimStart(s) ==
    IF s # <<>> /\ Head(s) \in WhiteSpace THEN TrimStart(Tail(s)) ELSE s

RECURSIVE TrimEnd(_)
TrimEnd(s) ==
    IF s # <<>> /\ s[Len(s)] \in WhiteSpace
    THEN TrimEnd(SubSeq(s, 1, Len(s) - 1))
    ELSE s

\* s.trim()
Trim(s) == TrimEnd(TrimStart(s))

\* s.split('\n')
RECURSIVE Split(_)
Split(s) ==
    IF \E k \in 1..Len(s) : s[k] = "\n"
    THEN LET k == CHOOSE j \in 1..Len(s) :
                      s[j] = "\n" /\ \A m \in 1..(j - 1) : s[m] # "\n"
         IN  <<SubSeq(s, 1, k - 1)>> \o Split(SubSeq(s, k + 1, Len(s)))
    ELSE <<s>>

\* lines.join('\n')
RECURSIVE Join(_)
Join(lines) ==
    IF lines = <<>> THEN <<>>
    ELSE IF Len(lines) = 1 THEN lines[1]
    ELSE lines[1] \o <<"\n">> \o Join(Tail(lines))

Digits == {"0", "1", "2", "3", "4", "5", "6", "7", "8", "9"}

DigitVal(c) ==
    CASE c = "0" -> 0 [] c = "1" -> 1 [] c = "2" -> 2 [] c = "3" -> 3
      [] c = "4" -> 4 [] c = "5" -> 5 [] c = "6" -> 6 [] c = "7" -> 7
      [] c = "8" -> 8 [] c = "9" -> 9

\* the longest prefix of s made of digits: what (\d+) captures
RECURSIVE LeadingDigits(_)
LeadingDigits(s) ==
    IF s # <<>> /\ Head(s) \in Digits
    THEN <<Head(s)>> \o LeadingDigits(Tail(s))
    ELSE <<>>

\* parseInt of a string of decimal digits
RECURSIVE ParseInt(_)
ParseInt(d) ==
    IF d = <<>> THEN 0
    ELSE ParseInt(SubSeq(d, 1, Len(d) - 1)) * 10 + DigitVal(d[Len(d)])

(***************************************************************************)
(* applyUnifiedDiff                                                        *)
(***************************************************************************)
\* (?:,(\d+))? : the optional count of a hunk header; [g: the capture or <<>>,
\* rest: what follows]
OptCount(s) ==
    IF StartsWith(s, <<",">>) /\ LeadingDigits(Tail(s)) # <<>>
    THEN [g |-> LeadingDigits(Tail(s)),
          rest |-> Substring(s, 1 + Len(LeadingDigits(Tail(s))))]
    ELSE [g |-> <<>>, rest |-> s]

\* line.match(/^@@ -(\d+)(?:,(\d+))? \+(\d+)(?:,(\d+))? @@/): <<>> when the
\* line does not match, else <<[g1, g2, g3, g4]>> (an absent group is <<>>)
HunkHeaderMatch(line) ==
    IF ~StartsWith(line, <<"@", "@", " ", "-">>) THEN <<>>
    ELSE LET r1 == Substring(line, 4)
             g1 == LeadingDigits(r1)
             o2 == OptCount(Substring(r1, Len(g1)))
             r3 == o2.rest
             g3 == LeadingDigits(Substring(r3, 2))
             o4 == OptCount(Substring(r3, 2 + Len(g3)))
         IN  IF /\ g1 # <<>>
                /\ StartsWith(r3, <<" ", "+">>)
                /\ g3 # <<>>
                /\ StartsWith(o4.rest, <<" ", "@", "@">>)
             THEN <<[g1 |-> g1, g2 |-> o2.g, g3 |-> g3, g4 |-> o4.g]>>
             ELSE <<>>

\* the hunk record a header opens; parseInt(m[2] || '1')
NewHunk(m) ==
    LET oldStart == ParseInt(m.g1) - 1
        oldCount == IF m.g2 = <<>> THEN 1 ELSE ParseInt(m.g2)
    IN  [oldStart |-> oldStart, oldEnd |-> oldStart + oldCount, lines |-> <<>>]

IsHunkLine(line) ==
    StartsWith(line, <<" ">>) \/ StartsWith(line, <<"+">>) \/ StartsWith(line, <<"-">>)

\* a faulty variant of ParseLine: a line that is neither a header nor an
\* operation closes the current hunk
ParseLineClosing(st, line) ==
    IF HunkHeaderMatch(line) # <<>>
    THEN [hunks |-> st.hunks \o st.currentHunk,
          currentHunk |-> <<NewHunk(HunkHeaderMatch(line)[1])>>]
    ELSE IF st.currentHunk # <<>> /\ IsHunkLine(line)
    THEN [st EXCEPT !.currentHunk =
             <<[st.currentHunk[1] EXCEPT !.lines = Append(@, line)]>>]
    ELSE [hunks |-> st.hunks \o st.currentHunk, currentHunk |-> <<>>]

\* one iteration of the parsing loop; currentHunk is <<>> for null
ParseLine(st, line) ==
    LET m == HunkHeaderMatch(line)
    IN  IF m # <<>>
        THEN [hunks |-> st.hunks \o st.currentHunk,
              currentHunk |-> <<NewHunk(m[1])>>]
        ELSE IF st.currentHunk # <<>> /\ IsHunkLine(line)
        THEN [st EXCEPT !.currentHunk =
                 <<[st.currentHunk[1] EXCEPT !.lines = Append(@, line)]>>]
        ELSE st

RECURSIVE ParseLoop(_, _)
ParseLoop(st, diffLines) ==
    IF diffLines = <<>> THEN st
    ELSE ParseLoop(ParseLine(st, Head(diffLines)), Tail(diffLines))

\* the hunks array after the parsing loop and "Add last hunk"
ParseHunks(diffLines) ==
    LET st == ParseLoop([hunks |-> <<>>, currentHunk |-> <<>>], diffLines)
    IN  st.hunks \o st.currentHunk

\* a faulty variant of ApplyHunkLine: a deletion does not move past the
\* original line, so the line is copied after the hunk
ApplyHunkLineKeepDeleted(st, line, originalLines) ==
    LET content == Substring(line, 1)
        inside  == st.hunkOriginalIndex < Len(originalLines)
    IN  IF StartsWith(line, <<" ">>)
        THEN IF inside
             THEN [st EXCEPT !.resultLines = Append(@, content),
                             !.hunkOriginalIndex = @ + 1,
                             !.originalIndex = @ + 1]
             ELSE [st EXCEPT !.resultLines = Append(@, content)]
        ELSE IF StartsWith(line, <<"+">>)
        THEN [st EXCEPT !.resultLines = Append(@, content)]
        ELSE st

\* a faulty variant of ApplyHunkLine: a context line that differs from the
\* original line keeps the original line
ApplyHunkLineStrict(st, line, originalLines) ==
    LET content == Substring(line, 1)
        inside  == st.hunkOriginalIndex < Len(originalLines)
    IN  IF StartsWith(line, <<" ">>)
        THEN IF inside
             THEN [st EXCEPT !.resultLines =
                                 Append(@, At(originalLines, st.hunkOriginalIndex)),
                             !.hunkOriginalIndex = @ + 1,
                             !.originalIndex = @ + 1]
             ELSE [st EXCEPT !.resultLines = Append(@, content)]
        ELSE IF StartsWith(line, <<"-">>)
        THEN IF inside
             THEN [st EXCEPT !.hunkOriginalIndex = @ + 1, !.originalIndex = @ + 1]
             ELSE st
        ELSE IF StartsWith(line, <<"+">>)
        THEN [st EXCEPT !.resultLines = Append(@, content)]
        ELSE st

\* one line of a hunk: context, deletion or addition
ApplyHunkLine(st, line, originalLines) ==
    LET content == Substring(line, 1)
        inside  == st.hunkOriginalIndex < Len(originalLines)
    IN  IF StartsWith(line, <<" ">>)
        THEN IF inside /\ At(originalLines, st.hunkOriginalIndex) = content
             THEN [st EXCEPT !.resultLines = Append(@, content),
                             !.hunkOriginalIndex = @ + 1,
                             !.originalIndex = @ + 1]
             ELSE IF inside
             THEN [st EXCEPT !.resultLines = Append(@, content),
                             !.hunkOriginalIndex = @ + 1,
                             !.originalIndex = @ + 1]
             ELSE [st EXCEPT !.resultLines = Append(@, content)]
        ELSE IF StartsWith(line, <<"-">>)
        THEN IF inside
             THEN [st EXCEPT !.hunkOriginalIndex = @ + 1, !.originalIndex = @ + 1]
             ELSE st
        ELSE IF StartsWith(line, <<"+">>)
        THEN [st EXCEPT !.resultLines = Append(@, content)]
        ELSE st

RECURSIVE ApplyHunkLines(_, _, _)
ApplyHunkLines(st, lines, originalLines) ==
    IF lines = <<>> THEN st
    ELSE ApplyHunkLines(ApplyHunkLine(st, Head(lines), originalLines),
                        Tail(lines), originalLines)

\* a faulty variant of CopyUpTo: the index moves to the limit and the lines
\* passed are not pushed
CopyUpToSkipping(st, limit, originalLines) ==
    [st EXCEPT !.originalIndex =
                   Max(st.originalIndex, Min(limit, Len(originalLines)))]

\* a faulty variant of CopyUpTo: the index is set to the start of the hunk,
\* also when that is behind it
CopyUpToRewinding(st, limit, originalLines) ==
    [st EXCEPT !.resultLines =
                   @ \o SubSeq(originalLines, st.originalIndex + 1,
                               Min(limit, Len(originalLines))),
               !.originalIndex = Min(limit, Len(originalLines))]

\* "Copy lines before hunk": while (originalIndex < limit && originalIndex < length)
CopyUpTo(st, limit, originalLines) ==
    LET stop == Max(st.originalIndex, Min(limit, Len(originalLines)))
    IN  [st EXCEPT !.resultLines =
                       @ \o SubSeq(originalLines, st.originalIndex + 1, stop),
                   !.originalIndex = stop]

\* the body of "for (const hunk of hunks)"
ApplyHunk(st, hunk, originalLines) ==
    LET copied == CopyUpTo(st, hunk.oldStart, originalLines)
        start  == [copied EXCEPT !.hunkOriginalIndex = copied.originalIndex]
        after  == ApplyHunkLines(start, hunk.lines, originalLines)
    IN  [after EXCEPT !.originalIndex = after.hunkOriginalIndex]

RECURSIVE ApplyHunks(_, _, _)
ApplyHunks(st, hunks, originalLines) ==
    IF hunks = <<>> THEN st
    ELSE ApplyHunks(ApplyHunk(st, Head(hunks), originalLines),
                    Tail(hunks), originalLines)

\* the variables of the apply loop after a step: the copy before a hunk, a
\* line of a hunk, the end of a hunk, the copy of the remaining lines
TraceEntry(step, line, st) ==
    [step |-> step, line |-> line, resultLines |-> st.resultLines,
     originalIndex |-> st.originalIndex,
     hunkOriginalIndex |-> st.hunkOriginalIndex]

RECURSIVE HunkLinesTrace(_, _, _)
HunkLinesTrace(st, lines, originalLines) ==
    IF lines = <<>> THEN <<>>
    ELSE <<TraceEntry("line", Head(lines),
                      ApplyHunkLine(st, Head(lines), originalLines))>>
         \o HunkLinesTrace(ApplyHunkLine(st, Head(lines), originalLines),
                           Tail(lines), originalLines)

\* "let hunkOriginalIndex = originalIndex" after the copy before the hunk
HunkStart(st, hunk, originalLines) ==
    [CopyUpTo(st, hunk.oldStart, originalLines) EXCEPT
        !.hunkOriginalIndex = CopyUpTo(st, hunk.oldStart, originalLines).originalIndex]

RECURSIVE ApplyTrace(_, _, _)
ApplyTrace(st, hunks, originalLines) ==
    IF hunks = <<>>
    THEN <<TraceEntry("rest", <<>>, CopyUpTo(st, Len(originalLines), originalLines))>>
    ELSE <<TraceEntry("copy", <<>>, HunkStart(st, Head(hunks), originalLines))>>
         \o HunkLinesTrace(HunkStart(st, Head(hunks), originalLines),
                           Head(hunks).lines, originalLines)
         \o <<TraceEntry("end", <<>>, ApplyHunk(st, Head(hunks), originalLines))>>
         \o ApplyTrace(ApplyHunk(st, Head(hunks), originalLines),
                       Tail(hunks), originalLines)

\* the steps of applyUnifiedDiff from "let originalIndex = 0" on
DiffTrace(originalContent, diffText) ==
    <<TraceEntry("start", <<>>,
                 [resultLines |-> <<>>, originalIndex |-> 0, hunkOriginalIndex |-> 0])>>
    \o ApplyTrace([resultLines |-> <<>>, originalIndex |-> 0, hunkOriginalIndex |-> 0],
                  ParseHunks(Split(diffText)), Split(originalContent))

\* a faulty variant of applyUnifiedDiff: the lines after the last hunk are not
\* copied
applyUnifiedDiffHunksOnly(originalContent, diffText) ==
    Join(ApplyHunks([resultLines |-> <<>>, originalIndex |-> 0,
                     hunkOriginalIndex |-> 0],
                    ParseHunks(Split(diffText)), Split(originalContent)).resultLines)

\* applyUnifiedDiff(originalContent, diffText)
applyUnifiedDiff(originalContent, diffText) ==
    LET originalLines == Split(originalContent)
        hunks == ParseHunks(Split(diffText))
        st0   == [resultLines |-> <<>>, originalIndex |-> 0, hunkOriginalIndex |-> 0]
        st1   == ApplyHunks(st0, hunks, originalLines)
        st2   == CopyUpTo(st1, Len(originalLines), originalLines)
    IN  Join(st2.resultLines)

(***************************************************************************)
(* executeEditFile: the skip-comment reconciliation                        *)
(***************************************************************************)
ExistingCode ==
    <<".", ".", ".", " ", "e", "x", "i", "s", "t", "i", "n", "g", " ",
      "c", "o", "d", "e", " ", ".", ".", ".">>

\* the four regular expressions: each is anchored at the start only
skipCommentPatterns ==
    { <<"/", "/", " ">> \o ExistingCode,
      <<"#", " ">> \o ExistingCode,
      <<"<", "!", "-", "-", " ">> \o ExistingCode \o <<" ", "-", "-", ">">>,
      <<"/", "*", " ">> \o ExistingCode \o <<" ", "*", "/">> }

\* skipCommentPatterns.some(pattern => pattern.test(line.trim()))
IsSkipComment(line) == \E p \in skipCommentPatterns : StartsWith(Trim(line), p)

hasSkipComments(editLines) ==
    \E n \in 1..Len(editLines) : IsSkipComment(editLines[n])

ContextWindow == 5

MaxContextLines == 3

PrevWindow == 3

LookAhead == 10

\* "Look ahead to find context from next non-skip lines": the loop over j
RECURSIVE CollectContext(_, _, _, _)
CollectContext(j, i, editLines, contextLines) ==
    IF j < Min(i + ContextWindow, Len(editLines))
    THEN IF ~IsSkipComment(At(editLines, j))
         THEN IF Len(contextLines) + 1 >= MaxContextLines
              THEN Append(contextLines, At(editLines, j))
              ELSE CollectContext(j + 1, i, editLines,
                                  Append(contextLines, At(editLines, j)))
         ELSE CollectContext(j + 1, i, editLines, contextLines)
    ELSE contextLines

\* "Look backward for previous context": the loop over j
RECURSIVE CollectPrev(_, _, _, _)
CollectPrev(j, i, editLines, prevLines) ==
    IF j < i
    THEN CollectPrev(j + 1, i, editLines,
                     IF ~IsSkipComment(At(editLines, j))
                     THEN Append(prevLines, At(editLines, j))
                     ELSE prevLines)
    ELSE prevLines

\* the inner loop over l: every compared line is equal; the comparison stops
\* at the end of the existing lines
MatchesAt(k, lines, existingLines) ==
    \A l \in 0..(Len(lines) - 1) :
        k + l < Len(existingLines) => At(existingLines, k + l) = At(lines, l)

\* the loop over k: <<>> when no position matches, else <<the first one>>
FirstMatch(from, lines, existingLines) ==
    LET ks == {k \in from..(Len(existingLines) - 1) :
                   MatchesAt(k, lines, existingLines)}
    IN  IF ks = {} THEN <<>>
        ELSE <<CHOOSE k \in ks : \A k2 \in ks : k <= k2>>

\* a faulty variant of ProcessSkipComment: the existing lines passed over by
\* the jump to the forward anchor are pushed to the result
ProcessSkipCommentKeeping(st, i, editLines, existingLines) ==
    LET contextLines == CollectContext(i + 1, i, editLines, <<>>)
        fwd == IF Len(contextLines) > 0
               THEN FirstMatch(st.existingIndex, contextLines, existingLines)
               ELSE <<>>
        prevLines == CollectPrev(Max(0, i - PrevWindow), i, editLines, <<>>)
        bwd == IF i > 0 /\ Len(prevLines) > 0
               THEN FirstMatch(st.existingIndex, prevLines, existingLines)
               ELSE <<>>
    IN  IF fwd # <<>>
        THEN [st EXCEPT !.resultLines =
                            @ \o SubSeq(existingLines, st.existingIndex + 1, fwd[1]),
                        !.existingIndex = fwd[1], !.foundMatch = TRUE,
                        !.backward = FALSE, !.step = "skip"]
        ELSE IF bwd # <<>>
        THEN [st EXCEPT !.existingIndex = bwd[1] + Len(prevLines),
                        !.foundMatch = FALSE,
                        !.backward = TRUE, !.step = "skip"]
        ELSE [st EXCEPT !.foundMatch = FALSE,
                        !.backward = i > 0 /\ Len(prevLines) > 0, !.step = "skip"]

\* a faulty variant of ProcessSkipComment: the backward search is made only
\* for a marker without a forward anchor
ProcessSkipCommentTrailingOnly(st, i, editLines, existingLines) ==
    LET contextLines == CollectContext(i + 1, i, editLines, <<>>)
        fwd == IF Len(contextLines) > 0
               THEN FirstMatch(st.existingIndex, contextLines, existingLines)
               ELSE <<>>
        prevLines == CollectPrev(Max(0, i - PrevWindow), i, editLines, <<>>)
        bwd == IF i > 0 /\ Len(prevLines) > 0 /\ Len(contextLines) = 0
               THEN FirstMatch(st.existingIndex, prevLines, existingLines)
               ELSE <<>>
    IN  IF fwd # <<>>
        THEN [st EXCEPT !.existingIndex = fwd[1], !.foundMatch = TRUE,
                        !.backward = FALSE, !.step = "skip"]
        ELSE IF bwd # <<>>
        THEN [st EXCEPT !.existingIndex = bwd[1] + Len(prevLines),
                        !.foundMatch = FALSE,
                        !.backward = TRUE, !.step = "skip"]
        ELSE [st EXCEPT !.foundMatch = FALSE,
                        !.backward = i > 0 /\ Len(prevLines) > 0
                                     /\ Len(contextLines) = 0,
                        !.step = "skip"]

\* the branch "if (isSkipComment)"; backward records whether the loop of the
\* backward search was entered
ProcessSkipComment(st, i, editLines, existingLines) ==
    LET contextLines == CollectContext(i + 1, i, editLines, <<>>)
        fwd == IF Len(contextLines) > 0
               THEN FirstMatch(st.existingIndex, contextLines, existingLines)
               ELSE <<>>
        prevLines == CollectPrev(Max(0, i - PrevWindow), i, editLines, <<>>)
        bwd == IF i > 0 /\ Len(prevLines) > 0
               THEN FirstMatch(st.existingIndex, prevLines, existingLines)
               ELSE <<>>
    IN  IF fwd # <<>>
        THEN [st EXCEPT !.existingIndex = fwd[1], !.foundMatch = TRUE,
                        !.backward = FALSE, !.step = "skip"]
        ELSE IF bwd # <<>>
        THEN [st EXCEPT !.existingIndex = bwd[1] + Len(prevLines),
                        !.foundMatch = FALSE,
                        !.backward = TRUE, !.step = "skip"]
        ELSE [st EXCEPT !.foundMatch = FALSE,
                        !.backward = i > 0 /\ Len(prevLines) > 0, !.step = "skip"]

\* a faulty variant of LookAheadMatch: the line LookAhead positions after the
\* cursor is looked at too
LookAheadMatchInclusive(existingIndex, nextEdit, existingLines) ==
    LET ks == {k \in (existingIndex + 1)..
                     Min(existingIndex + LookAhead, Len(existingLines) - 1) :
                   At(existingLines, k) = nextEdit}
    IN  IF ks = {} THEN <<>>
        ELSE <<CHOOSE k \in ks : \A k2 \in ks : k <= k2>>

\* "Look ahead for match": <<>> or <<the first k with existingLines[k] === nextEdit>>
LookAheadMatch(existingIndex, nextEdit, existingLines) ==
    LET ks == {k \in (existingIndex + 1)..
                     (Min(existingIndex + LookAhead, Len(existingLines)) - 1) :
                   At(existingLines, k) = nextEdit}
    IN  IF ks = {} THEN <<>>
        ELSE <<CHOOSE k \in ks : \A k2 \in ks : k <= k2>>

\* a faulty variant of ProcessEditLine: the lines copied by the look-ahead
\* are not passed by the cursor
ProcessEditLineNoAdvance(st, i, editLines, existingLines) ==
    IF st.existingIndex < Len(existingLines)
       /\ At(existingLines, st.existingIndex) = At(editLines, i)
    THEN [st EXCEPT !.resultLines = Append(@, At(editLines, i)),
                    !.existingIndex = @ + 1, !.step = "line"]
    ELSE IF /\ st.existingIndex < Len(existingLines)
            /\ i + 1 < Len(editLines)
            /\ ~IsSkipComment(At(editLines, i + 1))
            /\ LookAheadMatch(st.existingIndex, At(editLines, i + 1),
                              existingLines) # <<>>
    THEN [st EXCEPT !.resultLines =
                        Append(@, At(editLines, i))
                        \o SubSeq(existingLines, st.existingIndex + 1,
                                  LookAheadMatch(st.existingIndex,
                                                 At(editLines, i + 1),
                                                 existingLines)[1]),
                    !.step = "line"]
    ELSE [st EXCEPT !.resultLines = Append(@, At(editLines, i)), !.step = "line"]

\* the branch "Regular edit line"
ProcessEditLine(st, i, editLines, existingLines) ==
    LET editLine == At(editLines, i)
        pushed   == [st EXCEPT !.resultLines = Append(@, editLine), !.step = "line"]
    IN  IF st.existingIndex < Len(existingLines)
           /\ At(existingLines, st.existingIndex) = editLine
        THEN [pushed EXCEPT !.existingIndex = @ + 1]
        ELSE IF /\ st.existingIndex < Len(existingLines)
                /\ i + 1 < Len(editLines)
                /\ ~IsSkipComment(At(editLines, i + 1))
        THEN LET m == LookAheadMatch(st.existingIndex, At(editLines, i + 1),
                                     existingLines)
             IN  IF m # <<>>
                 THEN [pushed EXCEPT
                          !.resultLines =
                              @ \o SubSeq(existingLines, st.existingIndex + 1, m[1]),
                          !.existingIndex = m[1]]
                 ELSE pushed
        ELSE pushed

\* the body of "for (let i = 0; i < editLines.length; i++)"
ReconcileStep(st, i, editLines, existingLines) ==
    IF IsSkipComment(At(editLines, i))
    THEN ProcessSkipComment(st, i, editLines, existingLines)
    ELSE ProcessEditLine(st, i, editLines, existingLines)

\* a faulty variant of AddRemaining: the existing lines after the cursor are
\* left out
AddRemainingNone(st, existingLines) ==
    [st EXCEPT !.existingIndex = Max(@, Len(existingLines)), !.step = "rest"]

\* "Add any remaining existing lines"
AddRemaining(st, existingLines) ==
    IF st.existingIndex < Len(existingLines)
    THEN [st EXCEPT !.resultLines =
                        @ \o SubSeq(existingLines, st.existingIndex + 1,
                                    Len(existingLines)),
                    !.existingIndex = Len(existingLines),
                    !.step = "rest"]
    ELSE [st EXCEPT !.step = "rest"]

ReconcileInit ==
    [resultLines |-> <<>>, existingIndex |-> 0, foundMatch |-> FALSE,
     backward |-> FALSE, step |-> "start"]

\* the states of the reconciliation before edit line 0, after each edit line,
\* and after the remaining lines were added
RECURSIVE ReconcileTrace(_, _, _, _)
ReconcileTrace(st, i, editLines, existingLines) ==
    IF i < Len(editLines)
    THEN <<st>> \o ReconcileTrace(ReconcileStep(st, i, editLines, existingLines),
                                  i + 1, editLines, existingLines)
    ELSE <<st, AddRemaining(st, existingLines)>>

\* "Process edit with skip comments": the content written
Reconcile(existingContent, code_edit) ==
    LET existingLines == Split(existingContent)
        editLines == Split(code_edit)
        trace == ReconcileTrace(ReconcileInit, 0, editLines, existingLines)
    IN  Join(trace[Len(trace)].resultLines)

(***************************************************************************)
(* executeEditFile and executeDeleteFile                                   *)
(***************************************************************************)
\* code_edit.trim().includes('@@') && /^@@/.test(code_edit.trim())
isUnifiedDiff(code_edit) == StartsWith(Trim(code_edit), <<"@", "@">>)

\* a faulty variant of EditExisting: a full replacement is written after the
\* existing content instead of over it
EditExistingAppend(existingContent, code_edit) ==
    IF isUnifiedDiff(code_edit)
    THEN [action |-> "patched", content |-> applyUnifiedDiff(existingContent, code_edit)]
    ELSE IF ~hasSkipComments(Split(code_edit))
    THEN [action |-> "replaced",
          content |-> existingContent \o <<"\n">> \o code_edit]
    ELSE [action |-> "edited", content |-> Reconcile(existingContent, code_edit)]

\* the strategy executeEditFile takes for an existing file, and what it writes
EditExisting(existingContent, code_edit) ==
    IF isUnifiedDiff(code_edit)
    THEN [action |-> "patched", content |-> applyUnifiedDiff(existingContent, code_edit)]
    ELSE IF ~hasSkipComments(Split(code_edit))
    THEN [action |-> "replaced", content |-> code_edit]
    ELSE [action |-> "edited", content |-> Reconcile(existingContent, code_edit)]

\* what a handler did: it returned value or threw it (threw), the filesystem
\* it left, and the side effects and the events it produced, in order
Returned(value, files, eff, ev) ==
    [threw |-> FALSE, value |-> value, fs |-> files, effects |-> eff, events |-> ev]

Threw(message, files, eff, ev) ==
    [threw |-> TRUE, value |-> message, fs |-> files, effects |-> eff, events |-> ev]

Event(type, toolName) == [type |-> type, toolName |-> toolName]

WriteEffect(path, content) == [kind |-> "write", target |-> path, content |-> content]

UnlinkEffect(path) == [kind |-> "unlink", target |-> path, content |-> <<>>]

SpawnEffect(command) == [kind |-> "spawn", target |-> command, content |-> <<>>]

\* fs.existsSync(fullPath)
existsSync(files, path) == files[path] # <<>>

\* fs.writeFileSync(fullPath, content, 'utf8')
writeFileSync(files, path, content) == [files EXCEPT ![path] = <<content>>]

\* fs.unlinkSync(fullPath)
unlinkSync(files, path) == [files EXCEPT ![path] = <<>>]

\* a faulty variant of DeniedInAskMode: the check is missing
DeniedNever(m) == FALSE

\* the permission check at the head of executeEditFile and executeDeleteFile
DeniedInAskMode(m) == m = "ask"

\* a faulty variant of WroteExisting: the file is truncated, then written
WroteExistingInTwo(files, path, e) ==
    Returned([success |-> TRUE, action |-> e.action],
             writeFileSync(files, path, e.content),
             <<WriteEffect(path, <<>>), WriteEffect(path, e.content)>>,
             <<Event("tool:start", "edit_file"), Event("tool:complete", "edit_file")>>)

\* the tail of each branch for an existing file: one writeFileSync of the
\* computed content, the result with the action, tool:complete
WroteExisting(files, path, e) ==
    Returned([success |-> TRUE, action |-> e.action],
             writeFileSync(files, path, e.content),
             <<WriteEffect(path, e.content)>>,
             <<Event("tool:start", "edit_file"), Event("tool:complete", "edit_file")>>)

\* a faulty variant of executeEditFile: a missing file is not created from
\* code_edit but edited as an empty one
executeEditFileNoCreate(m, files, args) ==
    IF DeniedInAskMode(m)
    THEN Threw("edit_file is not allowed in ask mode", files, <<>>,
               <<Event("tool:start", "edit_file"), Event("tool:error", "edit_file")>>)
    ELSE WroteExisting(files, args.target_file,
                       EditExisting(IF existsSync(files, args.target_file)
                                    THEN files[args.target_file][1] ELSE <<>>,
                                    args.code_edit))

\* a faulty variant of executeEditFile: a diff without a hunk, or with a hunk
\* that starts past the end of the file, is rejected
executeEditFileStrict(m, files, args) ==
    IF DeniedInAskMode(m)
    THEN Threw("edit_file is not allowed in ask mode", files, <<>>,
               <<Event("tool:start", "edit_file"), Event("tool:error", "edit_file")>>)
    ELSE IF ~existsSync(files, args.target_file)
    THEN Returned([success |-> TRUE, action |-> "created"],
                  writeFileSync(files, args.target_file, args.code_edit),
                  <<WriteEffect(args.target_file, args.code_edit)>>,
                  <<Event("tool:start", "edit_file"), Event("tool:complete", "edit_file")>>)
    ELSE IF /\ isUnifiedDiff(args.code_edit)
            /\ \/ ParseHunks(Split(args.code_edit)) = <<>>
               \/ \E k \in 1..Len(ParseHunks(Split(args.code_edit))) :
                     ParseHunks(Split(args.code_edit))[k].oldStart
                         >= Len(Split(files[args.target_file][1]))
    THEN Threw("Invalid diff", files, <<>>,
               <<Event("tool:start", "edit_file"), Event("tool:error", "edit_file")>>)
    ELSE WroteExisting(files, args.target_file,
                       EditExisting(files[args.target_file][1], args.code_edit))

\* a faulty variant of executeEditFile: code_edit is written as it is, also
\* over an existing file
executeEditFileOverwrite(m, files, args) ==
    IF DeniedInAskMode(m)
    THEN Threw("edit_file is not allowed in ask mode", files, <<>>,
               <<Event("tool:start", "edit_file"), Event("tool:error", "edit_file")>>)
    ELSE Returned([success |-> TRUE, action |-> "created"],
                  writeFileSync(files, args.target_file, args.code_edit),
                  <<WriteEffect(args.target_file, args.code_edit)>>,
                  <<Event("tool:start", "edit_file"),
                    Event("tool:complete", "edit_file")>>)

executeEditFile(m, files, args) ==
    LET toolName == "edit_file"
        path  == args.target_file
        start == <<Event("tool:start", toolName)>>
        done  == start \o <<Event("tool:complete", toolName)>>
    IN  IF DeniedInAskMode(m)
        THEN Threw("edit_file is not allowed in ask mode", files, <<>>,
                   start \o <<Event("tool:error", toolName)>>)
        ELSE IF ~existsSync(files, path)
        THEN Returned([success |-> TRUE, action |-> "created"],
                      writeFileSync(files, path, args.code_edit),
                      <<WriteEffect(path, args.code_edit)>>, done)
        ELSE WroteExisting(files, path, EditExisting(files[path][1], args.code_edit))

\* a faulty variant of executeDeleteFile: unlinkSync is called without the
\* existsSync test, and raises on a missing file
executeDeleteFileStrict(m, files, args) ==
    IF DeniedInAskMode(m)
    THEN Threw("delete_file is not allowed in ask mode", files, <<>>,
               <<Event("tool:start", "delete_file"), Event("tool:error", "delete_file")>>)
    ELSE IF ~existsSync(files, args.target_file)
    THEN Threw("ENOENT: no such file or directory", files, <<>>,
               <<Event("tool:start", "delete_file"), Event("tool:error", "delete_file")>>)
    ELSE Returned([success |-> TRUE, message |-> ""],
                  unlinkSync(files, args.target_file),
                  <<UnlinkEffect(args.target_file)>>,
                  <<Event("tool:start", "delete_file"),
                    Event("tool:complete", "delete_file")>>)

executeDeleteFile(m, files, args) ==
    LET toolName == "delete_file"
        path  == args.target_file
        start == <<Event("tool:start", toolName)>>
        done  == start \o <<Event("tool:complete", toolName)>>
    IN  IF DeniedInAskMode(m)
        THEN Threw("delete_file is not allowed in ask mode", files, <<>>,
                   start \o <<Event("tool:error", toolName)>>)
        ELSE IF ~existsSync(files, path)
        THEN Returned([success |-> TRUE, message |-> "File does not exist"],
                      files, <<>>, done)
        ELSE Returned([success |-> TRUE, message |-> ""],
                      unlinkSync(files, path), <<UnlinkEffect(path)>>, done)

\* offset and limit are not passed by the calls of the model
executeReadFile(m, files, args) ==
    LET toolName == "read_file"
        path  == args.target_file
        start == <<Event("tool:start", toolName)>>
    IN  IF ~existsSync(files, path)
        THEN Threw("ENOENT: no such file or directory", files, <<>>,
                   start \o <<Event("tool:error", toolName)>>)
        ELSE Returned([content |-> files[path][1]], files, <<>>,
                      start \o <<Event("tool:complete", toolName)>>)

\* the child is spawned in both branches; the foreground branch resolves when
\* the child closes, the background branch at once
executeTerminalCommand(m, files, args) ==
    IF args.is_background
    THEN Returned([status |-> "background"], files,
                  <<SpawnEffect(args.command)>>, <<>>)
    ELSE Returned([status |-> "exited"], files,
                  <<SpawnEffect(args.command)>>, <<>>)

(***************************************************************************)
(* The tool registry                                                       *)
(***************************************************************************)
\* createMockTools(): the tool definitions the tests load
MockTools ==
    { [name |-> "read_file", disallow_in_ask_mode |-> FALSE],
      [name |-> "run_terminal_cmd", disallow_in_ask_mode |-> TRUE],
      [name |-> "edit_file", disallow_in_ask_mode |-> TRUE] }

\* the entry of b__d.tools.json for delete_file
DeleteFileTool == [name |-> "delete_file", disallow_in_ask_mode |-> TRUE]

\* this.allTools
allTools == MockTools \cup {DeleteFileTool}

\* registerTools(): the keys of this.toolRegistry
toolRegistry == {t.name : t \in allTools}

Restricted(toolName) ==
    \E t \in allTools : t.name = toolName /\ t.disallow_in_ask_mode

\* the switch of executeTool
Handler(toolName, m, files, args) ==
    CASE toolName = "run_terminal_cmd" -> executeTerminalCommand(m, files, args)
      [] toolName = "read_file" -> executeReadFile(m, files, args)
      [] toolName = "edit_file" -> executeEditFile(m, files, args)
      [] toolName = "delete_file" -> executeDeleteFile(m, files, args)
      [] OTHER -> Threw("Unknown tool", files, <<>>, <<>>)

\* what executeTool adds around the handler's outcome h: its own tool:start,
\* and its own tool:complete or tool:error
WithToolEvents(toolName, h) ==
    [h EXCEPT !.events =
        <<Event("tool:start", toolName)>> \o @ \o
        <<Event(IF h.threw THEN "tool:error" ELSE "tool:complete", toolName)>>]

\* executeTool(toolName, args, toolDef)
executeTool(toolName, m, files, args) ==
    WithToolEvents(toolName, Handler(toolName, m, files, args))

\* await this.toolRegistry.get(toolName)(toolArgs): calling undefined throws
CallRegistry(toolName, m, files, args) ==
    IF toolName \in toolRegistry
    THEN executeTool(toolName, m, files, args)
    ELSE Threw("this.toolRegistry.get(...) is not a function", files, <<>>, <<>>)

(***************************************************************************)
(* Construction and setMode                                                *)
(***************************************************************************)
\* the largest maxIterations option the model constructs a client with
MaxIterationsOption == 2

DefaultMaxIterations == 100

\* options.mode: "" stands for an option that is not given; the constructor
\* accepts any string
ModeOptions == {"", "ask", "agent", "plan"}

\* what setMode is called with
ModeArguments == {"ask", "agent", "plan"}

Paths == {"f"}

\* a file of the workspace that no call names, and what it holds
Bystander == "g"

BystanderContent == <<"k">>

\* the files of the workspace
Files == Paths \cup {Bystander}

\* the workspaces a client may start in: each target is absent or holds one
\* of the contents, the other file is there
Workspaces(contents) ==
    {f \in [Files -> {<<>>} \cup {<<c>> : c \in contents \cup {BystanderContent}}] :
        /\ f[Bystander] = <<BystanderContent>>
        /\ \A p \in Paths : f[p] # <<BystanderContent>>}

\* a faulty variant of filterTools: the mode is not read
filterToolsAll(ts, m) == ts

\* filterTools(tools, mode)
filterTools(ts, m) ==
    IF m = "ask" THEN {t \in ts : ~t.disallow_in_ask_mode} ELSE ts

\* this.mode = options.mode || 'agent'
ConstructMode(option) == IF option = "" THEN "agent" ELSE option

\* this.maxIterations = options.maxIterations || 100
ConstructMaxIterations(option) ==
    IF option = 0 THEN DefaultMaxIterations ELSE option

\* the contents a file of the workspace may have before the first call
InitialContents ==
    { <<"a">>, <<"a", "\n", "b", "\n", "c">> }

\* a direct call: the operation, its argument, whether it threw and with what
\* message, the action of the result, and the filesystem before the call
Call(op, arg, code_edit, threw, error, action, before) ==
    [op |-> op, arg |-> arg, code_edit |-> code_edit, threw |-> threw,
     error |-> error, action |-> action, before |-> before]

\* the direct call before this one, kept for the properties about two calls
After(previous, call) ==
    [op |-> call.op, arg |-> call.arg, code_edit |-> call.code_edit,
     threw |-> call.threw, error |-> call.error, action |-> call.action,
     before |-> call.before, priorOp |-> previous.op, priorArg |-> previous.arg,
     priorAction |-> previous.action, priorEdit |-> previous.code_edit]

NoFiles == [p \in Files |-> <<>>]

NoCall ==
    After(Call("none", "", <<>>, FALSE, "", "", NoFiles),
          Call("none", "", <<>>, FALSE, "", "", NoFiles))

\* new LLMClient(options), in a workspace where each path is absent or holds
\* one of the initial contents
InitClient ==
    /\ \E o \in ModeOptions :
          /\ mode = ConstructMode(o)
          /\ tools = {t.name : t \in filterTools(allTools, ConstructMode(o))}
    /\ \E n \in 1..MaxIterationsOption : maxIterations = ConstructMaxIterations(n)
    /\ fs \in Workspaces(InitialContents)
    /\ effects = <<>>
    /\ events = <<>>
    /\ lastCall = NoCall
    /\ calls = 0

InitChat ==
    /\ messages = <<>>
    /\ pc = "idle"
    /\ iteration = 0
    /\ requests = 0
    /\ pending = <<>>
    /\ toolResults = <<>>
    /\ outcome = [kind |-> "none", content |-> ""]

chatVars == <<messages, pc, iteration, requests, pending, toolResults, budget, outcome>>

clientVars == <<mode, tools, fs, effects, events, maxIterations>>

directVars == <<lastCall, calls>>

pureVars == <<ud, rc, procs>>

\* setMode(mode): the check, then the two assignments
\* the message of the error setMode throws
InvalidMode == "Mode must be \"ask\" or \"agent\""

\* a faulty variant of setMode: the argument is not validated
setModeUnchecked(newMode) ==
    /\ pc = "idle"
    /\ mode' = newMode
    /\ tools' = {t.name : t \in filterTools(allTools, newMode)}
    /\ lastCall' = After(lastCall, Call("setMode", newMode, <<>>, FALSE, "", "", fs))
    /\ UNCHANGED <<fs, effects, events, maxIterations, calls, chatVars, pureVars>>

setMode(newMode) ==
    /\ pc = "idle"
    /\ IF newMode # "ask" /\ newMode # "agent"
       THEN /\ lastCall' = After(lastCall, Call("setMode", newMode, <<>>, TRUE,
                                InvalidMode, "", fs))
            /\ UNCHANGED <<mode, tools>>
       ELSE /\ mode' = newMode
            /\ tools' = {t.name : t \in filterTools(allTools, newMode)}
            /\ lastCall' = After(lastCall, Call("setMode", newMode, <<>>, FALSE, "", "", fs))
    /\ UNCHANGED <<fs, effects, events, maxIterations, calls, chatVars, pureVars>>

(***************************************************************************)
(* The conversation loop: chat, processResponse, continueConversation      *)
(***************************************************************************)
\* the tool calls the modelled LLM may request during one chat()
MaxToolCalls == 2

\* the round trips after which the modelled LLM answers with a final response
MaxRequests == 3

Args(target_file, code_edit, command, is_background) ==
    [target_file |-> target_file, code_edit |-> code_edit,
     command |-> command, is_background |-> is_background]

\* JSON.stringify(value) and JSON.parse(text)
JsonStringify(value) == [json |-> value]

JsonParse(text) == text.json

\* the calls the modelled LLM chooses from: a read, an edit that replaces, an
\* edit with a marker, a delete, a foreground command, and a name that is not
\* registered
ToolCallChoices ==
    { [name |-> "read_file", arguments |-> JsonStringify(Args("f", <<>>, "", FALSE))],
      [name |-> "edit_file", arguments |-> JsonStringify(Args("f", <<"x">>, "", FALSE))],
      [name |-> "edit_file",
       arguments |-> JsonStringify(Args("f", <<"z", "\n", "/", "/", " ">> \o ExistingCode,
                                          "", FALSE))],
      [name |-> "delete_file", arguments |-> JsonStringify(Args("f", <<>>, "", FALSE))],
      [name |-> "run_terminal_cmd", arguments |-> JsonStringify(Args("", <<>>, "ls", FALSE))],
      [name |-> "fly", arguments |-> JsonStringify(Args("", <<>>, "", FALSE))] }

Message(role, content, tool_calls, tool_call_id, name) ==
    [role |-> role, content |-> content, tool_calls |-> tool_calls,
     tool_call_id |-> tool_call_id, name |-> name]

Text(t) == [text |-> t]

NoId == <<>>

\* the batches of n tool calls; the k-th call of round trip r has id <<r, k>>
Batches(n, r) ==
    { [k \in 1..n |-> [id |-> <<r, k>>, function |-> b[k]]] :
          b \in [1..n -> ToolCallChoices] }

\* chat(messages, message): up to "let iteration = 0"
chat ==
    /\ pc = "idle"
    /\ LET withSystem ==
               IF Len(messages) = 0 \/ messages[1].role # "system"
               THEN <<Message("system", Text("systemPrompt"), <<>>, NoId, "")>> \o messages
               ELSE messages
           user == IF mode = "ask" THEN Text("hello readonlyPrompt") ELSE Text("hello")
       IN  messages' = Append(withSystem, Message("user", user, <<>>, NoId, ""))
    /\ iteration' = 0
    /\ pc' = "loop"
    /\ UNCHANGED <<requests, pending, toolResults, budget, outcome,
                   clientVars, directVars, pureVars>>

\* while (iteration < this.maxIterations) { callLLM(...)
chatCallLLM ==
    /\ pc = "loop"
    /\ iteration < maxIterations
    /\ requests' = requests + 1
    /\ pc' = "awaiting"
    /\ UNCHANGED <<messages, iteration, pending, toolResults, budget, outcome,
                   clientVars, directVars, pureVars>>

\* throw new Error(`Maximum iterations (...) reached`)
chatMaxIterations ==
    /\ pc = "loop"
    /\ ~(iteration < maxIterations)
    /\ pc' = "failed"
    /\ outcome' = [kind |-> "threw", content |-> "Maximum iterations reached"]
    /\ UNCHANGED <<messages, iteration, requests, pending, toolResults, budget,
                   clientVars, directVars, pureVars>>

\* processResponse on a message without tool calls, and what chat() does with
\* the result that every enclosing continueConversation hands back unchanged:
\* a truthy content is returned, a falsy one counts an iteration
processPlainResponse(content) ==
    /\ pc = "awaiting"
    /\ content = "" => (requests < MaxRequests \/ iteration + 1 >= maxIterations)
    /\ messages' = Append(messages, Message("assistant", Text(content), <<>>, NoId, ""))
    /\ IF content # ""
       THEN /\ pc' = "done"
            /\ outcome' = [kind |-> "returned", content |-> content]
            /\ UNCHANGED iteration
       ELSE /\ pc' = "loop"
            /\ iteration' = iteration + 1
            /\ UNCHANGED outcome
    /\ UNCHANGED <<requests, pending, toolResults, budget,
                   clientVars, directVars, pureVars>>

\* processResponse on a message with tool calls: the message is pushed and the
\* loop over message.tool_calls begins
processToolCalls(batch) ==
    /\ pc = "awaiting"
    /\ requests < MaxRequests
    /\ Len(batch) <= budget
    /\ messages' = Append(messages, Message("assistant", Text(""), batch, NoId, ""))
    /\ pending' = batch
    /\ toolResults' = <<>>
    /\ budget' = budget - Len(batch)
    /\ pc' = "dispatching"
    /\ UNCHANGED <<iteration, requests, outcome, clientVars, directVars, pureVars>>

\* a faulty variant of ToolResult: the error of a failing call is not
\* serialized, and the result does not carry the id of its call
ToolResultNoId(toolCall, h) ==
    Message("tool",
            IF h.threw THEN JsonStringify([success |-> FALSE])
                       ELSE JsonStringify(h.value),
            <<>>, NoId, toolCall.function.name)

\* the result message of one tool call
ToolResult(toolCall, h) ==
    Message("tool",
            IF h.threw THEN JsonStringify([error |-> h.value])
                       ELSE JsonStringify(h.value),
            <<>>, toolCall.id, toolCall.function.name)

\* one iteration of "for (const toolCall of message.tool_calls)"
executeToolCall ==
    /\ pc = "dispatching"
    /\ pending # <<>>
    /\ LET toolCall == Head(pending)
           toolName == toolCall.function.name
           toolArgs == JsonParse(toolCall.function.arguments)
       IN  \E h \in {CallRegistry(toolName, mode, fs, toolArgs)} :
           /\ fs' = h.fs
           /\ effects' = effects \o h.effects
           /\ events' = events \o h.events
           /\ toolResults' = Append(toolResults, ToolResult(toolCall, h))
    /\ pending' = Tail(pending)
    /\ UNCHANGED <<mode, tools, maxIterations, messages, pc, iteration, requests,
                   budget, outcome, directVars, pureVars>>

\* conversationHistory.push(...toolResults), then continueConversation: callLLM
continueConversation ==
    /\ pc = "dispatching"
    /\ pending = <<>>
    /\ messages' = messages \o toolResults
    /\ toolResults' = <<>>
    /\ requests' = requests + 1
    /\ pc' = "awaiting"
    /\ UNCHANGED <<iteration, pending, budget, outcome,
                   clientVars, directVars, pureVars>>

(***************************************************************************)
(* Direct calls of the handlers, as the tests make them                    *)
(***************************************************************************)
\* the direct handler calls made on one client
MaxCalls == 2

Line(c) == <<c>>

Marker == <<"/", "/", " ">> \o ExistingCode

HashMarker == <<"#", " ">> \o ExistingCode

Header(oldStart, oldCount, newStart, newCount) ==
    <<"@", "@", " ", "-", oldStart, ",", oldCount, " ",
      "+", newStart, ",", newCount, " ", "@", "@">>

\* a header without counts
ShortHeader(oldStart, newStart) ==
    <<"@", "@", " ", "-", oldStart, " ", "+", newStart, " ", "@", "@">>

Ctx(c) == <<" ", c>>

Add(c) == <<"+", c>>

Del(c) == <<"-", c>>

\* the code_edit arguments of the direct calls: full contents, unified diffs,
\* a text that begins with @@ without being a header, edits with markers, a
\* hunk past the end of the file, hunks out of order
EditChoices ==
    { <<>>,
      Line("x"),
      Join(<<Line("a"), Line("x"), Line("c")>>),
      Join(<<Header("1", "3", "1", "4"), Ctx("a"), Ctx("b"), Add("x"), Ctx("c")>>),
      Join(<<<<>>, ShortHeader("1", "1"), Del("a"), Add("y")>>),
      <<"@", "@", " ", "x">>,
      Join(<<Line("a"), Marker>>),
      Join(<<Marker, Line("c"), Line("x")>>),
      Join(<<Line("x"), <<" ">> \o HashMarker \o <<" ", "x">>>>),
      Join(<<Header("9", "1", "9", "1"), Del("a"), Add("x")>>),
      Join(<<ShortHeader("2", "2"), Ctx("b"), ShortHeader("1", "1"), Del("a")>>),
      Join(<<<<"@", "@", " ", "x">>, Add("y"), Del("a")>>) }

callEditFile(path, code_edit) ==
    /\ pc = "idle"
    /\ calls < MaxCalls
    /\ \E h \in {executeEditFile(mode, fs, Args(path, code_edit, "", FALSE))} :
          /\ fs' = h.fs
          /\ effects' = effects \o h.effects
          /\ events' = events \o h.events
          /\ lastCall' = After(lastCall, Call("edit_file", path, code_edit, h.threw,
                              IF h.threw THEN h.value ELSE "",
                              IF h.threw THEN "" ELSE h.value.action, fs))
    /\ calls' = calls + 1
    /\ UNCHANGED <<mode, tools, maxIterations, chatVars, pureVars>>

callDeleteFile(path) ==
    /\ pc = "idle"
    /\ calls < MaxCalls
    /\ \E h \in {executeDeleteFile(mode, fs, Args(path, <<>>, "", FALSE))} :
          /\ fs' = h.fs
          /\ effects' = effects \o h.effects
          /\ events' = events \o h.events
          /\ lastCall' = After(lastCall, Call("delete_file", path, <<>>, h.threw,
                              IF h.threw THEN h.value ELSE "",
                              IF h.threw THEN "" ELSE h.value.message, fs))
    /\ calls' = calls + 1
    /\ UNCHANGED <<mode, tools, maxIterations, chatVars, pureVars>>

callReadFile(path) ==
    /\ pc = "idle"
    /\ calls < MaxCalls
    /\ \E h \in {executeReadFile(mode, fs, Args(path, <<>>, "", FALSE))} :
          /\ fs' = h.fs
          /\ effects' = effects \o h.effects
          /\ events' = events \o h.events
          /\ lastCall' = After(lastCall, Call("read_file", path, <<>>, h.threw,
                              IF h.threw THEN h.value ELSE "", "", fs))
    /\ calls' = calls + 1
    /\ UNCHANGED <<mode, tools, maxIterations, chatVars, pureVars>>

\* a client constructed without a maxIterations option, called directly
InitEdit ==
    /\ \E o \in ModeOptions :
          /\ mode = ConstructMode(o)
          /\ tools = {t.name : t \in filterTools(allTools, ConstructMode(o))}
    /\ maxIterations = ConstructMaxIterations(0)
    /\ fs \in Workspaces(InitialContents)
    /\ effects = <<>>
    /\ events = <<>>
    /\ lastCall = NoCall
    /\ calls = 0
    /\ InitChat
    /\ budget = 0
    /\ ud = <<>>
    /\ rc = <<>>
    /\ procs = <<>>

NextEdit ==
    \/ \E m \in ModeArguments : setMode(m)
    \/ \E p \in Paths : \E e \in EditChoices : callEditFile(p, e)
    \/ \E p \in Paths : callDeleteFile(p)
    \/ \E p \in Paths : callReadFile(p)

SpecEdit == InitEdit /\ [][NextEdit]_vars

(***************************************************************************)
(* applyUnifiedDiff and the reconciliation as functions of their inputs    *)
(***************************************************************************)
\* the longest original file, in lines, of the generated inputs
MaxOriginalLines == 3

\* the longest diff text, in lines, of the generated inputs
MaxDiffLines == 4

\* the longest edit with markers, in lines, of the generated inputs
MaxEditLines == 4

SeqsUpTo(S, n) == UNION {[1..k -> S] : k \in 0..n}

OriginalLineChoices == {Line("a"), Line("b")}

\* a diff text begins with @@ when executeEditFile passes it on
FirstDiffLineChoices ==
    {Header("1", "2", "1", "3"), ShortHeader("2", "2"), <<"@", "@">>}

DiffLineChoices ==
    {Header("1", "2", "1", "3"), ShortHeader("2", "2"),
     Ctx("a"), Ctx("b"), Add("x"), Del("a"), Line("~")}

ABC == <<Line("a"), Line("b"), Line("c")>>

\* the cases of the tests and of the documentation
DiffExamples ==
    { [originalContent |-> Join(ABC),
       diffText |-> Join(<<Header("1", "3", "1", "4"),
                           Ctx("a"), Ctx("b"), Add("x"), Ctx("c")>>)],
      [originalContent |-> Join(ABC),
       diffText |-> Join(<<Header("1", "3", "1", "3"),
                           Ctx("a"), Del("b"), Add("y"), Ctx("c")>>)],
      [originalContent |-> Join(ABC),
       diffText |-> Join(<<Header("1", "3", "1", "3"),
                           Ctx("a"), Ctx("b"), Ctx("c")>>)] }

DiffInputs ==
    { [originalContent |-> Join(o), diffText |-> Join(<<h>> \o d)] :
          o \in SeqsUpTo(OriginalLineChoices, MaxOriginalLines),
          h \in FirstDiffLineChoices,
          d \in SeqsUpTo(DiffLineChoices, MaxDiffLines - 1) }
    \cup DiffExamples

EditLineChoices == {Line("a"), Line("b"), Line("x"), Marker, HashMarker}

OneToFive == <<Line("1"), Line("2"), Line("3"), Line("4"), Line("5")>>

\* a file longer than the look-ahead of the regular edit line
TwelveLines ==
    <<Line("1"), Line("2"), Line("3"), Line("4"), Line("5"), Line("6"),
      Line("7"), Line("8"), Line("9"), Line("p"), Line("q"), Line("r")>>

\* a file copied into an edit with more markers in a row than the context
\* loop of a marker looks ahead
AABB == <<Line("a"), Line("a"), Line("b"), Line("b")>>

ReconcileExamples ==
    { [existingContent |-> Join(OneToFive),
       code_edit |-> Join(<<Line("1"), Marker, Line("3"), Marker, Line("5")>>)],
      [existingContent |-> Join(TwelveLines),
       code_edit |-> Join(<<Line("x"), Line("p"), Marker>>)],
      [existingContent |-> Join(TwelveLines),
       code_edit |-> Join(<<Line("x"), Line("q"), Marker>>)],
      [existingContent |-> Join(AABB),
       code_edit |-> Join(<<Line("a"), Marker, Marker, Marker, Marker, Marker,
                            Line("a"), Line("b"), Line("b")>>)] }

\* every generated edit has a marker: executeEditFile reconciles no other
ReconcileInputs ==
    { [existingContent |-> Join(o), code_edit |-> Join(e)] :
          o \in SeqsUpTo(OriginalLineChoices, MaxOriginalLines),
          e \in {x \in SeqsUpTo(EditLineChoices, MaxEditLines) :
                     hasSkipComments(x)} }
    \cup ReconcileExamples

\* a client that takes no part: the functions read neither mode nor files
ClientAside ==
    /\ mode = ConstructMode("")
    /\ tools = {t.name : t \in filterTools(allTools, ConstructMode(""))}
    /\ maxIterations = ConstructMaxIterations(0)
    /\ fs = NoFiles
    /\ effects = <<>>
    /\ events = <<>>
    /\ lastCall = NoCall
    /\ calls = 0
    /\ InitChat
    /\ budget = 0

InitDiff ==
    /\ ClientAside
    /\ rc = <<>>
    /\ procs = <<>>
    /\ \E in \in DiffInputs :
          ud = [originalContent |-> in.originalContent, diffText |-> in.diffText,
                called |-> FALSE, trace |-> <<>>, result |-> <<>>]

\* const patchedContent = this.applyUnifiedDiff(existingContent, code_edit)
callApplyUnifiedDiff ==
    /\ ~ud.called
    /\ ud' = [ud EXCEPT !.called = TRUE,
                        !.trace = DiffTrace(ud.originalContent, ud.diffText),
                        !.result = applyUnifiedDiff(ud.originalContent, ud.diffText)]
    /\ UNCHANGED <<clientVars, chatVars, directVars, rc, procs>>

SpecDiff == InitDiff /\ [][callApplyUnifiedDiff]_vars

InitReconcile ==
    /\ ClientAside
    /\ ud = <<>>
    /\ procs = <<>>
    /\ \E in \in ReconcileInputs :
          rc = [existingContent |-> in.existingContent, code_edit |-> in.code_edit,
                called |-> FALSE, trace |-> <<>>, result |-> <<>>]

\* the reconciliation of executeEditFile on an existing file, from
\* "let resultLines = []" to "const newContent = resultLines.join('\n')"
callReconcile ==
    /\ ~rc.called
    /\ rc' = [rc EXCEPT
                 !.called = TRUE,
                 !.trace = ReconcileTrace(ReconcileInit, 0, Split(rc.code_edit),
                                          Split(rc.existingContent)),
                 !.result = Reconcile(rc.existingContent, rc.code_edit)]
    /\ UNCHANGED <<clientVars, chatVars, directVars, ud, procs>>

SpecReconcile == InitReconcile /\ [][callReconcile]_vars

(***************************************************************************)
(* Child processes: executeTerminalCommand and runCommand                  *)
(***************************************************************************)
\* the children spawned on one client
MaxSpawns == 2

\* the timeout option of runCommand, in ticks: every caller passes a positive
\* one or leaves the default
TimeoutChoices == {1, 2}

\* what a child does: close with code 0, close with code 1, emit 'error', or
\* never exit
Behaviours == {"exits", "fails", "error", "hangs"}

NoResult == [pid |-> 0, status |-> "", exitCode |-> 0 - 1]

\* a spawned child, the timer armed for it, and the promise returned
Proc(kind, background, behaviour, timeout, allowNonZero, timer, promise, result) ==
    [kind |-> kind, background |-> background, behaviour |-> behaviour,
     timeout |-> timeout, allowNonZero |-> allowNonZero, timer |-> timer,
     elapsed |-> 0, child |-> "running", promise |-> promise, result |-> result,
     error |-> ""]

\* the caller awaits the promise of every call it made
AllSettled == \A i \in 1..Len(procs) : procs[i].promise # "pending"

procFrame == <<mode, tools, fs, events, maxIterations, chatVars, directVars, ud, rc>>

\* a faulty variant of spawnTerminal: the background branch waits for 'close'
\* like the foreground branch
spawnTerminalWaiting(is_background, behaviour) ==
    /\ Len(procs) < MaxSpawns
    /\ AllSettled
    /\ is_background => behaviour # "error"
    /\ procs' = Append(procs,
          Proc("terminal", is_background, behaviour, 0, TRUE, "none", "pending",
               NoResult))
    /\ effects' = Append(effects, SpawnEffect("sh"))
    /\ UNCHANGED procFrame

\* executeTerminalCommand(args): the background branch resolves at once with
\* the pid, the foreground branch attaches its listeners and waits
spawnTerminal(is_background, behaviour) ==
    /\ Len(procs) < MaxSpawns
    /\ AllSettled
    /\ is_background => behaviour # "error"
    /\ procs' = Append(procs,
          IF is_background
          THEN Proc("terminal", TRUE, behaviour, 0, TRUE, "none", "resolved",
                    [pid |-> Len(procs) + 1, status |-> "background",
                     exitCode |-> 0 - 1])
          ELSE Proc("terminal", FALSE, behaviour, 0, TRUE, "none", "pending",
                    NoResult))
    /\ effects' = Append(effects, SpawnEffect("sh"))
    /\ UNCHANGED procFrame

\* runCommand(command, args, options): spawn, then setTimeout when timeout > 0
spawnRunCommand(timeout, allowNonZero, behaviour) ==
    /\ Len(procs) < MaxSpawns
    /\ AllSettled
    /\ procs' = Append(procs,
          Proc("runCommand", FALSE, behaviour, timeout, allowNonZero,
               IF timeout > 0 THEN "armed" ELSE "none", "pending", NoResult))
    /\ effects' = Append(effects, SpawnEffect("command"))
    /\ UNCHANGED procFrame

\* time passes for an armed timer, until it is due
tick(i) ==
    /\ procs[i].timer = "armed"
    /\ procs[i].elapsed < procs[i].timeout
    /\ procs' = [procs EXCEPT ![i].elapsed = @ + 1]
    /\ UNCHANGED <<effects, procFrame>>

\* the callback of setTimeout in runCommand: child.kill(), reject
timerFires(i) ==
    /\ procs[i].timer = "armed"
    /\ procs[i].elapsed >= procs[i].timeout
    /\ procs' = [procs EXCEPT
          ![i].timer = "fired",
          ![i].child = IF @ = "running" THEN "killed" ELSE @,
          ![i].promise = IF @ = "pending" THEN "rejected" ELSE @,
          ![i].error = IF procs[i].promise = "pending" THEN "Command timeout" ELSE @]
    /\ UNCHANGED <<effects, procFrame>>

\* the exit code 'close' reports: null (here -1) for a killed child
ExitCode(proc) ==
    IF proc.child = "killed" THEN 0 - 1
    ELSE IF proc.behaviour = "exits" THEN 0 ELSE 1

\* child.on('close'): clearTimeout, then resolve, or reject on a non-zero
\* code that runCommand does not allow; settling a settled promise changes
\* nothing
childClose(i) ==
    /\ \/ procs[i].child = "running" /\ procs[i].behaviour \in {"exits", "fails"}
       \/ procs[i].child = "killed"
    /\ \E code \in {ExitCode(procs[i])} :
       \E bad \in {procs[i].kind = "runCommand" /\ code # 0 /\ ~procs[i].allowNonZero} :
          procs' = [procs EXCEPT
             ![i].child = "closed",
             ![i].timer = IF @ = "armed" THEN "cleared" ELSE @,
             ![i].promise = IF @ # "pending" THEN @
                            ELSE IF bad THEN "rejected" ELSE "resolved",
             ![i].result = IF procs[i].promise = "pending" /\ ~bad
                           THEN [pid |-> 0, status |-> "", exitCode |-> code]
                           ELSE @,
             ![i].error = IF procs[i].promise = "pending" /\ bad
                          THEN "Command failed" ELSE @]
    /\ UNCHANGED <<effects, procFrame>>

\* child.on('error'): clearTimeout (runCommand), reject(error)
childError(i) ==
    /\ procs[i].child = "running"
    /\ procs[i].behaviour = "error"
    /\ procs' = [procs EXCEPT
          ![i].child = "closed",
          ![i].timer = IF @ = "armed" THEN "cleared" ELSE @,
          ![i].promise = IF @ = "pending" THEN "rejected" ELSE @,
          ![i].error = IF procs[i].promise = "pending" THEN "spawn error" ELSE @]
    /\ UNCHANGED <<effects, procFrame>>

InitProc ==
    /\ ClientAside
    /\ ud = <<>>
    /\ rc = <<>>
    /\ procs = <<>>

NextProc ==
    \/ \E b \in BOOLEAN : \E h \in Behaviours : spawnTerminal(b, h)
    \/ \E t \in TimeoutChoices : \E a \in BOOLEAN : \E h \in Behaviours :
          spawnRunCommand(t, a, h)
    \/ \E i \in 1..Len(procs) : tick(i)
    \/ \E i \in 1..Len(procs) : timerFires(i)
    \/ \E i \in 1..Len(procs) : childClose(i)
    \/ \E i \in 1..Len(procs) : childError(i)

\* the event loop runs every timer that is due and every listener whose event
\* was emitted; a child that hangs emits none
SpecProc ==
    /\ InitProc
    /\ [][NextProc]_vars
    /\ WF_vars(\E i \in 1..Len(procs) : tick(i))
    /\ WF_vars(\E i \in 1..Len(procs) : timerFires(i))
    /\ WF_vars(\E i \in 1..Len(procs) : childClose(i))
    /\ WF_vars(\E i \in 1..Len(procs) : childError(i))

Init ==
    /\ InitClient
    /\ InitChat
    /\ budget = MaxToolCalls
    /\ ud = <<>>
    /\ rc = <<>>
    /\ procs = <<>>

Next ==
    \/ \E m \in ModeArguments : setMode(m)
    \/ chat
    \/ chatCallLLM
    \/ chatMaxIterations
    \/ \E c \in {"", "final"} : processPlainResponse(c)
    \/ \E n \in 1..MaxToolCalls : \E b \in Batches(n, requests) : processToolCalls(b)
    \/ executeToolCall
    \/ continueConversation

Spec == Init /\ [][Next]_vars

\* the conversations a caller passes to chat(): none, one without a system
\* prompt, and one that an earlier chat() has left
HistoryChoices ==
    { <<>>,
      <<Message("user", Text("earlier"), <<>>, NoId, "")>>,
      <<Message("system", Text("systemPrompt"), <<>>, NoId, ""),
        Message("user", Text("earlier"), <<>>, NoId, ""),
        Message("assistant", Text("final"), <<>>, NoId, "")>> }

InitHistory ==
    /\ InitClient
    /\ messages \in HistoryChoices
    /\ pc = "idle"
    /\ iteration = 0
    /\ requests = 0
    /\ pending = <<>>
    /\ toolResults = <<>>
    /\ outcome = [kind |-> "none", content |-> ""]
    /\ budget = MaxToolCalls
    /\ ud = <<>>
    /\ rc = <<>>
    /\ procs = <<>>

\* chat(messages, message) on a conversation of the caller
SpecHistory == InitHistory /\ [][Next]_vars

(***************************************************************************)
(* Properties                                                              *)
(***************************************************************************)
IsToolError(message) == "error" \in DOMAIN message.content.json

Assistant(n) == messages[n].role = "assistant"

HasToolCalls(n) == Assistant(n) /\ Len(messages[n].tool_calls) > 0

Responses == {n \in 1..Len(messages) : Assistant(n)}

\* the result of a call that the permission check refused
Denied(message) ==
    /\ IsToolError(message)
    /\ message.content.json.error \in
           {"run_terminal_cmd is not allowed in ask mode",
            "edit_file is not allowed in ask mode",
            "delete_file is not allowed in ask mode"}

\* C1: a call of a restricted tool through the registry is denied before any
\* file write, file delete or subprocess spawn while the mode is ask, and is
\* not denied while the mode is agent, whatever its arguments.
C1_AskDeniesRestricted ==
    [][(/\ pc = "dispatching"
        /\ pending # <<>>
        /\ Restricted(Head(pending).function.name))
       => /\ mode = "ask" =>
                /\ fs' = fs
                /\ effects' = effects
                /\ Denied(toolResults'[Len(toolResults')])
          /\ mode = "agent" => ~Denied(toolResults'[Len(toolResults')])]_vars

\* C2: while every response of the LLM carries tool calls, chat() is not done,
\* no round trip beyond maxIterations is made, and once maxIterations
\* responses were dispatched chat() has thrown.
C2_ToolCallsEndInMaxIterations ==
    (Responses # {} /\ \A n \in Responses : HasToolCalls(n))
    => /\ pc # "done"
       /\ requests <= maxIterations
       /\ (Cardinality(Responses) = maxIterations /\ pc # "dispatching")
              => pc = "failed"

\* C3: the round trips never exceed maxIterations, and a chat() that has
\* ended returned a final response or threw the maximum-iterations error.
C3_RoundTripsBounded ==
    /\ requests <= maxIterations
    /\ pc = "done" => outcome.kind = "returned" /\ outcome.content # ""
    /\ pc = "failed" =>
           outcome = [kind |-> "threw", content |-> "Maximum iterations reached"]
    /\ pc \notin {"done", "failed"} => outcome.kind = "none"

\* result k of a batch answers call k of the batch
Answers(result, toolCall) ==
    /\ result.role = "tool"
    /\ result.tool_call_id = toolCall.id
    /\ result.name = toolCall.function.name
    /\ toolCall.function.name \notin toolRegistry => IsToolError(result)

\* C4: outside the dispatch of a batch, every response with N tool calls is
\* followed in the conversation by exactly its N results, the i-th carrying
\* the id and the name of the i-th call, an unregistered name answered by a
\* serialized error; during the dispatch the results so far answer the first
\* calls of the batch, whatever failed among them.
C4_BatchResultsInOrder ==
    /\ \A n \in 1..Len(messages) :
          (HasToolCalls(n) /\ (n < Len(messages) \/ pc # "dispatching"))
          => /\ Len(messages) >= n + Len(messages[n].tool_calls)
             /\ \A k \in 1..Len(messages[n].tool_calls) :
                   Answers(messages[n + k], messages[n].tool_calls[k])
             /\ Len(messages) > n + Len(messages[n].tool_calls)
                   => messages[n + Len(messages[n].tool_calls) + 1].role # "tool"
    /\ pc = "dispatching" =>
          LET batch == messages[Len(messages)].tool_calls
          IN  /\ Len(toolResults) + Len(pending) = Len(batch)
              /\ \A k \in 1..Len(toolResults) : Answers(toolResults[k], batch[k])
              /\ pending = SubSeq(batch, Len(toolResults) + 1, Len(batch))
    /\ pc = "awaiting" => requests >= 1

\* the next round trip is under way after a batch of two whose first call
\* failed and whose second call succeeded
C4_Witness ==
    /\ pc = "awaiting"
    /\ \E n \in 1..Len(messages) :
          /\ HasToolCalls(n)
          /\ Len(messages[n].tool_calls) = 2
          /\ Len(messages) = n + 2
          /\ IsToolError(messages[n + 1])
          /\ ~IsToolError(messages[n + 2])

\* C5: in agent mode, edit_file on a path that does not exist returns action
\* created and leaves the file with exactly code_edit as its content.
C5_CreateOnMissing ==
    (/\ lastCall.op = "edit_file"
     /\ mode = "agent"
     /\ lastCall.before[lastCall.arg] = <<>>)
    => /\ ~lastCall.threw
       /\ lastCall.action = "created"
       /\ fs[lastCall.arg] = <<lastCall.code_edit>>

\* a file was created from a code_edit that begins with a hunk header, and
\* one from a code_edit with a marker line
C5_Witness ==
    /\ lastCall.op = "edit_file"
    /\ mode = "agent"
    /\ lastCall.before[lastCall.arg] = <<>>
    /\ lastCall.action = "created"
    /\ \/ HunkHeaderMatch(Split(lastCall.code_edit)[1]) # <<>>
       \/ hasSkipComments(Split(lastCall.code_edit))

\* C6: after an edit_file that took Replace the file holds exactly code_edit,
\* and the same edit applied again takes Replace again and leaves it so.
C6_ReplaceIdempotent ==
    /\ (lastCall.op = "edit_file" /\ lastCall.action = "replaced")
       => fs[lastCall.arg] = <<lastCall.code_edit>>
    /\ (/\ lastCall.op = "edit_file"
        /\ lastCall.priorOp = "edit_file"
        /\ lastCall.priorAction = "replaced"
        /\ lastCall.priorArg = lastCall.arg
        /\ lastCall.priorEdit = lastCall.code_edit)
       => /\ lastCall.action = "replaced"
          /\ lastCall.before[lastCall.arg] = <<lastCall.code_edit>>
          /\ fs = lastCall.before

\* Replace was taken twice in a row with the same multi-line content
C6_Witness ==
    /\ lastCall.op = "edit_file"
    /\ lastCall.action = "replaced"
    /\ lastCall.priorOp = "edit_file"
    /\ lastCall.priorAction = "replaced"
    /\ lastCall.priorEdit = lastCall.code_edit
    /\ Len(Split(lastCall.code_edit)) > 1
    /\ fs[lastCall.arg] = <<lastCall.code_edit>>

\* the contents of the lines of a hunk whose prefix is one of kinds
RECURSIVE Side(_, _)
Side(lines, kinds) ==
    IF lines = <<>> THEN <<>>
    ELSE (IF Head(lines)[1] \in kinds THEN <<Substring(Head(lines), 1)>> ELSE <<>>)
         \o Side(Tail(lines), kinds)

\* the hunks are in ascending old-start order without overlap, and the context
\* and delete lines of each equal the original lines from its old-start on
RECURSIVE WellFormed(_, _, _)
WellFormed(hunks, from, originalLines) ==
    \/ hunks = <<>>
    \/ LET hunk == Head(hunks)
           old  == Side(hunk.lines, {" ", "-"})
       IN  /\ hunk.oldStart >= from
           /\ hunk.oldStart + Len(old) <= Len(originalLines)
           /\ SubSeq(originalLines, hunk.oldStart + 1, hunk.oldStart + Len(old)) = old
           /\ WellFormed(Tail(hunks), hunk.oldStart + Len(old), originalLines)

\* the original with the old side of every hunk replaced by its new side
RECURSIVE RefPatch(_, _, _)
RefPatch(hunks, from, originalLines) ==
    IF hunks = <<>> THEN SubSeq(originalLines, from + 1, Len(originalLines))
    ELSE LET hunk == Head(hunks)
             old  == Side(hunk.lines, {" ", "-"})
         IN  SubSeq(originalLines, from + 1, hunk.oldStart)
             \o Side(hunk.lines, {" ", "+"})
             \o RefPatch(Tail(hunks), hunk.oldStart + Len(old), originalLines)

udHunks == ParseHunks(Split(ud.diffText))

udWellFormed == WellFormed(udHunks, 0, Split(ud.originalContent))

StartsHeader(line) == StartsWith(line, <<"@", "@">>)

\* C7: for a diff whose hunks are ascending and whose context and delete lines
\* equal the original lines they cover, applyUnifiedDiff returns the original
\* with the deleted lines removed and the added lines inserted at their
\* positions, the lines outside the hunks kept in order; [a,b,c] gives
\* [a,b,x,c] and [a,y,c] for the two documented hunks; and when neither the
\* original nor a hunk line holds an @@ line, no line of the result is one.
C7_PatchAppliesHunks ==
    (ud # <<>> /\ ud.called /\ udWellFormed)
    => /\ ud.result = Join(RefPatch(udHunks, 0, Split(ud.originalContent)))
       /\ (/\ ud.originalContent = Join(ABC)
           /\ ud.diffText = Join(<<Header("1", "3", "1", "4"),
                                   Ctx("a"), Ctx("b"), Add("x"), Ctx("c")>>))
          => Split(ud.result) = <<Line("a"), Line("b"), Line("x"), Line("c")>>
       /\ (/\ ud.originalContent = Join(ABC)
           /\ ud.diffText = Join(<<Header("1", "3", "1", "3"),
                                   Ctx("a"), Del("b"), Add("y"), Ctx("c")>>))
          => Split(ud.result) = <<Line("a"), Line("y"), Line("c")>>
       /\ (/\ \A n \in 1..Len(Split(ud.originalContent)) :
                 ~StartsHeader(Split(ud.originalContent)[n])
           /\ \A k \in 1..Len(udHunks) : \A n \in 1..Len(udHunks[k].lines) :
                 ~StartsHeader(Substring(udHunks[k].lines[n], 1)))
          => \A n \in 1..Len(Split(ud.result)) : ~StartsHeader(Split(ud.result)[n])

\* the delete+add hunk was applied to [a,b,c]
C7_Witness ==
    /\ ud # <<>>
    /\ ud.called
    /\ udWellFormed
    /\ ud.originalContent = Join(ABC)
    /\ \E k \in 1..Len(udHunks) : \E n \in 1..Len(udHunks[k].lines) :
          udHunks[k].lines[n] = Del("b")
    /\ Split(ud.result) = <<Line("a"), Line("y"), Line("c")>>

ContextOnly(hunk) ==
    /\ hunk.lines # <<>>
    /\ \A n \in 1..Len(hunk.lines) : StartsWith(hunk.lines[n], <<" ">>)

\* C8: a diff of hunks that hold only context lines, each equal to the
\* original line it covers, leaves the content unchanged.
C8_ContextOnlyUnchanged ==
    (/\ ud # <<>>
     /\ ud.called
     /\ udHunks # <<>>
     /\ \A k \in 1..Len(udHunks) : ContextOnly(udHunks[k])
     /\ udWellFormed)
    => ud.result = ud.originalContent

\* the hunk @@ -1,3 +1,3 @@ / a / b / c was applied to [a,b,c]
C8_Witness ==
    /\ ud # <<>>
    /\ ud.called
    /\ ud.originalContent = Join(ABC)
    /\ ud.diffText = Join(<<Header("1", "3", "1", "3"), Ctx("a"), Ctx("b"), Ctx("c")>>)
    /\ Len(udHunks) = 1
    /\ ContextOnly(udHunks[1])
    /\ Split(ud.result) = ABC

RECURSIVE IsSubsequence(_, _)
IsSubsequence(s, t) ==
    \/ s = <<>>
    \/ /\ t # <<>>
       /\ IF Head(s) = Head(t) THEN IsSubsequence(Tail(s), Tail(t))
                               ELSE IsSubsequence(s, Tail(t))

RECURSIVE NonMarkers(_)
NonMarkers(editLines) ==
    IF editLines = <<>> THEN <<>>
    ELSE (IF IsSkipComment(Head(editLines)) THEN <<>> ELSE <<Head(editLines)>>)
         \o NonMarkers(Tail(editLines))

\* C9: every non-marker line of the edit is in the result, in the order of the
\* edit, and no marker line is; for [1,2,3,4,5] and [1, MARKER, 3, MARKER, 5]
\* the result contains 1, 3, 5 in order, and each of the two markers found its
\* anchor and moved the cursor forward.
C9_AnchorSkip ==
    (rc # <<>> /\ rc.called)
    => /\ IsSubsequence(NonMarkers(Split(rc.code_edit)), Split(rc.result))
       /\ \A n \in 1..Len(Split(rc.result)) : ~IsSkipComment(Split(rc.result)[n])
       /\ (/\ rc.existingContent = Join(OneToFive)
           /\ rc.code_edit = Join(<<Line("1"), Marker, Line("3"), Marker, Line("5")>>))
          => /\ IsSubsequence(<<Line("1"), Line("3"), Line("5")>>, Split(rc.result))
             /\ \A n \in 2..Len(rc.trace) :
                   rc.trace[n].step = "skip"
                   => /\ rc.trace[n].foundMatch
                      /\ rc.trace[n].existingIndex > rc.trace[n - 1].existingIndex

\* C10: in ask mode edit_file and delete_file fail with "<tool> is not allowed
\* in ask mode" and leave every file as it was: an existing target keeps its
\* content and a missing target stays missing.
C10_AskModeLeavesFiles ==
    (lastCall.op \in {"edit_file", "delete_file"} /\ mode = "ask")
    => /\ lastCall.threw
       /\ lastCall.op = "edit_file"
             => lastCall.error = "edit_file is not allowed in ask mode"
       /\ lastCall.op = "delete_file"
             => lastCall.error = "delete_file is not allowed in ask mode"
       /\ fs = lastCall.before

\* edit_file was refused on a missing path after delete_file was refused on it
C10_Witness ==
    /\ mode = "ask"
    /\ lastCall.op = "edit_file"
    /\ lastCall.priorOp = "delete_file"
    /\ lastCall.threw
    /\ fs[lastCall.arg] = <<>>
    /\ effects = <<>>

\* C11: setMode with a value other than ask and agent throws the invalid-mode
\* error and leaves the mode and the offered tools as they were; setMode with
\* ask or agent sets the mode to that value.
C11_SetModeValidates ==
    [][(lastCall' # lastCall /\ lastCall'.op = "setMode")
       => IF lastCall'.arg \in {"ask", "agent"}
          THEN ~lastCall'.threw /\ mode' = lastCall'.arg
          ELSE /\ lastCall'.threw
               /\ lastCall'.error = InvalidMode
               /\ mode' = mode
               /\ tools' = tools]_vars

\* setMode("plan") threw on a client switched to ask before, which is still
\* in ask mode with the tools of ask mode
C11_Witness ==
    /\ lastCall.op = "setMode"
    /\ lastCall.arg = "plan"
    /\ lastCall.threw
    /\ lastCall.priorOp = "setMode"
    /\ lastCall.priorArg = "ask"
    /\ mode = "ask"
    /\ tools = {"read_file"}

\* C12: after construction and after any setMode calls, the tools offered in
\* ask mode hold no tool flagged disallow_in_ask_mode, and the tools offered
\* in agent mode are all the registered tools.
C12_OfferedToolsFollowMode ==
    /\ mode = "ask" => \A t \in tools : ~Restricted(t)
    /\ mode = "ask" => \A t \in toolRegistry : ~Restricted(t) => t \in tools
    /\ mode = "agent" => tools = toolRegistry
    /\ tools \subseteq toolRegistry

\* a client in agent mode was switched to ask mode
C12_Witness ==
    /\ lastCall.op = "setMode"
    /\ lastCall.arg = "ask"
    /\ lastCall.priorOp = "setMode"
    /\ lastCall.priorArg = "agent"
    /\ mode = "ask"
    /\ tools # toolRegistry
    /\ tools # {}

\* C20: in every reachable state of a client the mode is ask or agent.
C20_ModeIsAskOrAgent == mode \in {"ask", "agent"}

\* the events of one invocation of toolName: tool:start, then one of
\* tool:complete and tool:error
OneInvocation(evs, toolName) ==
    /\ Len(evs) = 2
    /\ evs[1] = Event("tool:start", toolName)
    /\ evs[2] \in {Event("tool:complete", toolName), Event("tool:error", toolName)}

\* C13: every invocation of a registered tool through the registry emits one
\* tool:start followed by exactly one of tool:complete and tool:error.
C13_OneStartOneEnd ==
    [][(/\ pc = "dispatching"
        /\ pending # <<>>
        /\ Head(pending).function.name \in toolRegistry)
       => /\ Len(events') >= Len(events)
          /\ SubSeq(events', 1, Len(events)) = events
          /\ OneInvocation(SubSeq(events', Len(events) + 1, Len(events')),
                           Head(pending).function.name)]_vars

\* the first line that is not blank, <<>> when every line is blank
RECURSIVE FirstNonBlank(_)
FirstNonBlank(lines) ==
    IF lines = <<>> THEN <<>>
    ELSE IF Trim(Head(lines)) # <<>> THEN Head(lines)
    ELSE FirstNonBlank(Tail(lines))

\* C14: on an existing file edit_file answers patched exactly when the first
\* non-blank line of code_edit is a hunk header @@ -n[,n] +n[,n] @@; otherwise
\* it answers edited when a line is a marker and replaced when none is.
C14_PatchedIffHeader ==
    (/\ lastCall.op = "edit_file"
     /\ ~lastCall.threw
     /\ lastCall.before[lastCall.arg] # <<>>)
    => /\ lastCall.action = "patched"
          <=> HunkHeaderMatch(FirstNonBlank(Split(lastCall.code_edit))) # <<>>
       /\ lastCall.action # "patched"
          => lastCall.action = IF hasSkipComments(Split(lastCall.code_edit))
                               THEN "edited" ELSE "replaced"

\* the four literal forms of the marker
MarkerForms ==
    { <<"/", "/", " ">> \o ExistingCode,
      <<"#", " ">> \o ExistingCode,
      <<"/", "*", " ">> \o ExistingCode \o <<" ", "*", "/">>,
      <<"<", "!", "-", "-", " ">> \o ExistingCode \o <<" ", "-", "-", ">">> }

ExactMarker(line) == Trim(line) \in MarkerForms

\* C15: a line is a marker only when its trimmed text equals one of the four
\* literal forms; an edit of an existing file that is not taken as a diff
\* answers edited when it holds such a line and replaced when it holds none.
C15_MarkerIsExact ==
    (/\ lastCall.op = "edit_file"
     /\ ~lastCall.threw
     /\ lastCall.before[lastCall.arg] # <<>>
     /\ lastCall.action # "patched")
    => /\ \A n \in 1..Len(Split(lastCall.code_edit)) :
             IsSkipComment(Split(lastCall.code_edit)[n])
             <=> ExactMarker(Split(lastCall.code_edit)[n])
       /\ lastCall.action =
             IF \E n \in 1..Len(Split(lastCall.code_edit)) :
                    ExactMarker(Split(lastCall.code_edit)[n])
             THEN "edited" ELSE "replaced"

\* C16: an edit_file that is not refused never throws, whatever the file holds
\* and whatever code_edit is (no header, hunks past the end of the file, hunks
\* out of order, anchors found nowhere, empty texts): the patch or the
\* reconciliation ends and its output is written.
C16_EditEnginesNeverRaise ==
    (lastCall.op = "edit_file" /\ mode # "ask")
    => /\ ~lastCall.threw
       /\ lastCall.action \in {"created", "patched", "edited", "replaced"}
       /\ fs[lastCall.arg] # <<>>
       /\ (lastCall.before[lastCall.arg] # <<>> /\ lastCall.action = "patched")
          => fs[lastCall.arg] =
                 <<applyUnifiedDiff(lastCall.before[lastCall.arg][1], lastCall.code_edit)>>
       /\ (lastCall.before[lastCall.arg] # <<>> /\ lastCall.action = "edited")
          => fs[lastCall.arg] =
                 <<Reconcile(lastCall.before[lastCall.arg][1], lastCall.code_edit)>>

\* a diff whose hunk starts past the end of the file was applied to a file
\* that an edit with an anchor found nowhere had produced
C16_Witness ==
    /\ lastCall.op = "edit_file"
    /\ lastCall.action = "patched"
    /\ ~lastCall.threw
    /\ \E k \in 1..Len(ParseHunks(Split(lastCall.code_edit))) :
          ParseHunks(Split(lastCall.code_edit))[k].oldStart
              >= Len(Split(lastCall.before[lastCall.arg][1]))
    /\ lastCall.priorOp = "edit_file"
    /\ lastCall.priorAction = "edited"
    /\ lastCall.priorEdit = Join(<<Marker, Line("c"), Line("x")>>)

\* C17: a tool call whose name is not in the registry fails with the
\* unknown-tool error before any handler runs and before any mutation; the
\* error is the result of that call, and the dispatch of the batch goes on.
C17_UnknownToolError ==
    [][(/\ pc = "dispatching"
        /\ pending # <<>>
        /\ Head(pending).function.name \notin toolRegistry)
       => /\ fs' = fs
          /\ effects' = effects
          /\ events' = events
          /\ toolResults' = Append(toolResults,
                 Message("tool", JsonStringify([error |-> "Unknown tool"]), <<>>,
                         Head(pending).id, Head(pending).function.name))
          /\ pending' = Tail(pending)
          /\ pc' = "dispatching"]_vars

IsPrefix(s, t) == Len(s) <= Len(t) /\ SubSeq(t, 1, Len(s)) = s

\* C18: the conversation passed to chat() is mutated by append only: at every
\* step the sequence of messages before the step is a prefix of the sequence
\* after it.
C18_AppendOnly == [][IsPrefix(messages, messages')]_vars

\* C19: when the LLM answers with a message without tool calls, chat() is done
\* with that response and no further request is made; when it answers with
\* tool calls, the dispatch of the tools begins.
C19_PlainResponseEndsChat ==
    [][(pc = "awaiting" /\ Len(messages') = Len(messages) + 1)
       => /\ messages'[Len(messages')].role = "assistant"
          /\ IF messages'[Len(messages')].tool_calls = <<>>
             THEN /\ pc' = "done"
                  /\ outcome' = [kind |-> "returned",
                                 content |-> messages'[Len(messages')].content.text]
                  /\ requests' = requests
             ELSE /\ pc' = "dispatching"
                  /\ pending' = messages'[Len(messages')].tool_calls]_vars


Foreground(i) == i \in 1..Len(procs) /\ ~procs[i].background

\* C21: every subprocess that is not started in the background is bounded by
\* a timeout of its own: while its child runs a timer is armed that will kill
\* it and reject the call with a timeout error, so the call cannot stay
\* pending forever.
C21_SubprocessTimeout ==
    \A i \in 1..Len(procs) :
        (Foreground(i) /\ procs[i].child = "running" /\ procs[i].promise = "pending")
            => procs[i].timer = "armed"

\* C22: a terminal command started with is_background = true has returned,
\* with a process id and the status 'background', whatever its child is
\* doing: the call never waits for the child to exit.
C22_BackgroundReturnsAtOnce ==
    \A i \in 1..Len(procs) :
        procs[i].background
        => /\ procs[i].promise = "resolved"
           /\ procs[i].result.status = "background"
           /\ procs[i].result.pid > 0

\* a later command was started while the child of a background command was
\* still running
C22_Witness ==
    \E i \in 1..Len(procs) :
        /\ procs[i].background
        /\ procs[i].child = "running"
        /\ procs[i].promise = "resolved"
        /\ i < Len(procs)

\* C23: in agent mode delete_file on a path that does not exist returns with
\* a message, without raising, and changes nothing; so every delete_file call
\* in agent mode returns and leaves the path absent, also the second of two
\* calls on the same path.
C23_DeleteMissingSucceeds ==
    [][(lastCall'.op = "delete_file" /\ calls' = calls + 1 /\ mode = "agent")
       => /\ ~lastCall'.threw
          /\ fs'[lastCall'.arg] = <<>>
          /\ fs[lastCall'.arg] = <<>>
                => /\ fs' = fs
                   /\ effects' = effects
                   /\ lastCall'.action = "File does not exist"]_vars

\* delete_file returned twice in a row on the same path, the first call
\* having removed the file
C23_Witness ==
    /\ mode = "agent"
    /\ lastCall.op = "delete_file"
    /\ lastCall.priorOp = "delete_file"
    /\ lastCall.priorArg = lastCall.arg
    /\ lastCall.priorAction = ""
    /\ ~lastCall.threw
    /\ lastCall.action = "File does not exist"
    /\ effects = <<UnlinkEffect(lastCall.arg)>>
    /\ fs[lastCall.arg] = <<>>

\* C24: an edit_file call that returns has written the target exactly once,
\* with the content computed from the file and code_edit, and no other file;
\* a call that throws has written nothing.
C24_OneWritePerEdit ==
    [][(lastCall'.op = "edit_file" /\ calls' = calls + 1)
       => IF lastCall'.threw
          THEN effects' = effects /\ fs' = fs
          ELSE /\ effects' = Append(effects,
                      WriteEffect(lastCall'.arg,
                          IF fs[lastCall'.arg] = <<>> THEN lastCall'.code_edit
                          ELSE EditExisting(fs[lastCall'.arg][1],
                                            lastCall'.code_edit).content))
               /\ fs'[lastCall'.arg] = <<effects'[Len(effects')].content>>
               /\ \A q \in Files \ {lastCall'.arg} : fs'[q] = fs[q]]_vars

\* two edits in a row returned, the second a reconciliation of an existing
\* file: two writes in all, both of the target, the other file as it was
C24_Witness ==
    /\ lastCall.op = "edit_file"
    /\ lastCall.priorOp = "edit_file"
    /\ ~lastCall.threw
    /\ lastCall.action = "edited"
    /\ lastCall.before[lastCall.arg] # <<>>
    /\ Len(effects) = 2
    /\ \A k \in 1..2 : effects[k].kind = "write" /\ effects[k].target = lastCall.arg
    /\ fs[Bystander] = <<BystanderContent>>

udOriginalLines == Split(ud.originalContent)

\* C25: the cursor of applyUnifiedDiff into the original lines starts at 0,
\* never decreases from one step to the next and never exceeds the number of
\* original lines, whatever the order of the hunks and wherever they start;
\* the hunks are taken in the order they were parsed.
C25_CursorMonotonic ==
    (ud # <<>> /\ ud.called)
    => /\ ud.trace[1].originalIndex = 0
       /\ \A k \in 1..Len(ud.trace) :
             /\ ud.trace[k].originalIndex <= Len(udOriginalLines)
             /\ k > 1 => ud.trace[k - 1].originalIndex <= ud.trace[k].originalIndex
       /\ Len(SelectSeq(ud.trace, LAMBDA e : e.step = "copy")) = Len(udHunks)

\* a second hunk that starts before the first was reached with the cursor
\* already past its start
C25_Witness ==
    /\ ud # <<>>
    /\ ud.called
    /\ Len(udHunks) >= 2
    /\ udHunks[2].oldStart < udHunks[1].oldStart
    /\ \E k \in 3..Len(ud.trace) :
          /\ ud.trace[k].step = "copy"
          /\ ud.trace[k].originalIndex > udHunks[2].oldStart
          /\ ud.trace[k].originalIndex = ud.trace[k - 1].originalIndex

\* what one line of a hunk did: emitted its text or nothing, moved the cursor
\* by n lines
HunkLineDid(k, emits, n) ==
    /\ ud.trace[k].resultLines =
          IF emits THEN Append(ud.trace[k - 1].resultLines, Substring(ud.trace[k].line, 1))
          ELSE ud.trace[k - 1].resultLines
    /\ ud.trace[k].originalIndex = ud.trace[k - 1].originalIndex + n

HunkLineSteps == {k \in 2..Len(ud.trace) : ud.trace[k].step = "line"}

\* C26 as stated: a context line always emits its text and advances the
\* cursor by one original line, a deletion advances without emitting, an
\* addition emits without advancing.
C26_OpsAlwaysAdvance ==
    (ud # <<>> /\ ud.called)
    => \A k \in HunkLineSteps :
          /\ StartsWith(ud.trace[k].line, <<" ">>) => HunkLineDid(k, TRUE, 1)
          /\ StartsWith(ud.trace[k].line, <<"-">>) => HunkLineDid(k, FALSE, 1)
          /\ StartsWith(ud.trace[k].line, <<"+">>) => HunkLineDid(k, TRUE, 0)

\* C26, amended: a context line always emits its recorded text, equal to the
\* original line or not, and a deletion emits nothing; each advances the
\* cursor by one original line when a line is left at the cursor and leaves
\* it at the end of the file otherwise; an addition emits without advancing.
C26_OpsAdvanceWithinFile ==
    (ud # <<>> /\ ud.called)
    => \A k \in HunkLineSteps :
          \E n \in {IF ud.trace[k - 1].originalIndex < Len(udOriginalLines)
                    THEN 1 ELSE 0} :
             /\ StartsWith(ud.trace[k].line, <<" ">>) => HunkLineDid(k, TRUE, n)
             /\ StartsWith(ud.trace[k].line, <<"-">>) => HunkLineDid(k, FALSE, n)
             /\ StartsWith(ud.trace[k].line, <<"+">>) => HunkLineDid(k, TRUE, 0)

\* a context line recorded as b replaced the original line a, and a later
\* context line was emitted at the end of the file
C26_Witness ==
    /\ ud # <<>>
    /\ ud.called
    /\ \E k \in HunkLineSteps :
          /\ ud.trace[k].line = Ctx("b")
          /\ ud.trace[k - 1].originalIndex < Len(udOriginalLines)
          /\ At(udOriginalLines, ud.trace[k - 1].originalIndex) = Line("a")
          /\ ud.trace[k].originalIndex = ud.trace[k - 1].originalIndex + 1
    /\ \E k \in HunkLineSteps :
          /\ StartsWith(ud.trace[k].line, <<" ">>)
          /\ ud.trace[k - 1].originalIndex = Len(udOriginalLines)
          /\ ud.trace[k].originalIndex = Len(udOriginalLines)

udDiffLines == Split(ud.diffText)

\* the lines up to the next header or the end
RECURSIVE BodyOf(_)
BodyOf(d) ==
    IF d = <<>> \/ HunkHeaderMatch(Head(d)) # <<>> THEN <<>>
    ELSE <<Head(d)>> \o BodyOf(Tail(d))

\* for each header of the diff text, in order, the lines that follow it up to
\* the next header or the end
RECURSIVE Sections(_)
Sections(d) ==
    IF d = <<>> THEN <<>>
    ELSE IF HunkHeaderMatch(Head(d)) # <<>>
    THEN <<BodyOf(Tail(d))>> \o Sections(Tail(d))
    ELSE Sections(Tail(d))

\* the operation lines that directly follow the header
RECURSIVE LeadingRun(_)
LeadingRun(section) ==
    IF section = <<>> \/ ~IsHunkLine(Head(section)) THEN <<>>
    ELSE <<Head(section)>> \o LeadingRun(Tail(section))

\* C27 as stated: a line of a hunk that is neither a header nor an operation
\* ends the body of the hunk: the operations of a hunk are those between its
\* header and the first such line.
C27_OtherLineEndsHunk ==
    (ud # <<>> /\ ud.called)
    => \E hunks \in {udHunks} : \E sections \in {Sections(udDiffLines)} :
          /\ Len(hunks) = Len(sections)
          /\ \A k \in 1..Len(hunks) : hunks[k].lines = LeadingRun(sections[k])

\* C27, amended: a line of a hunk that is neither a header nor an operation
\* is skipped and the hunk stays open: the operations of a hunk are all the
\* lines prefixed ' ', '+' or '-' between its header and the next header or
\* the end of the input.
C27_OtherLineSkipped ==
    (ud # <<>> /\ ud.called)
    => \E hunks \in {udHunks} : \E sections \in {Sections(udDiffLines)} :
          /\ Len(hunks) = Len(sections)
          /\ \A k \in 1..Len(hunks) :
                hunks[k].lines = SelectSeq(sections[k], IsHunkLine)

\* an addition that follows a line ~ inside a hunk was applied
C27_Witness ==
    /\ ud # <<>>
    /\ ud.called
    /\ Len(udHunks) = 1
    /\ \E section \in {Sections(udDiffLines)[1]} :
       \E i \in 1..Len(section) : \E j \in 1..Len(section) :
          /\ i < j
          /\ section[i] = Line("~")
          /\ section[j] = Add("x")
    /\ \E n \in 1..Len(Split(ud.result)) : Split(ud.result)[n] = Line("x")

rcEditLines == Split(rc.code_edit)

rcExistingLines == Split(rc.existingContent)

\* the edit lines (numbered from 1) that are markers; the state before edit
\* line n is rc.trace[n], the state after it rc.trace[n + 1]
MarkerSteps == {n \in 1..Len(rcEditLines) : IsSkipComment(rcEditLines[n])}

NotMarker(line) == ~IsSkipComment(line)

\* the forward anchor of the marker at edit line n: the first three
\* non-marker lines among the four edit lines that follow it
ForwardAnchor(n) ==
    LET after == SelectSeq(SubSeq(rcEditLines, n + 1, Min(n + 4, Len(rcEditLines))),
                           NotMarker)
    IN  SubSeq(after, 1, Min(3, Len(after)))

\* the backward anchor of the marker at edit line n: the non-marker lines
\* among the three edit lines before it
BackwardAnchor(n) ==
    SelectSeq(SubSeq(rcEditLines, Max(1, n - 3), n - 1), NotMarker)

\* all the lines of the anchor exist from position p (0-based) on and equal it
FullMatch(p, anchor) ==
    /\ p + Len(anchor) <= Len(rcExistingLines)
    /\ \A l \in 1..Len(anchor) : rcExistingLines[p + l] = anchor[l]

\* the lines of the anchor equal the lines from position p on as far as the
\* file reaches
MatchToEnd(p, anchor) ==
    /\ p < Len(rcExistingLines)
    /\ \A l \in 1..Len(anchor) :
          p + l <= Len(rcExistingLines) => rcExistingLines[p + l] = anchor[l]

\* C28: when the forward search of a marker finds a match, the cursor is at
\* the first position at or after the old cursor where all the lines of the
\* forward anchor exist and equal it; a position where the file ends before
\* the whole anchor was compared is no match.
C28_ForwardMatchIsWhole ==
    (rc # <<>> /\ rc.called)
    => \A n \in MarkerSteps :
          rc.trace[n + 1].foundMatch
          => /\ rc.trace[n + 1].existingIndex >= rc.trace[n].existingIndex
             /\ FullMatch(rc.trace[n + 1].existingIndex, ForwardAnchor(n))
             /\ \A q \in rc.trace[n].existingIndex..(rc.trace[n + 1].existingIndex - 1) :
                   ~FullMatch(q, ForwardAnchor(n))

\* C29: when the forward anchor of a marker is found at position p, the
\* cursor is set to p, the original lines between the old cursor and p are
\* not emitted, and the cursor never returns before p.
C29_JumpDropsLines ==
    (rc # <<>> /\ rc.called)
    => \A n \in MarkerSteps :
          rc.trace[n + 1].foundMatch
          => /\ rc.trace[n + 1].existingIndex >= rc.trace[n].existingIndex
             /\ MatchToEnd(rc.trace[n + 1].existingIndex, ForwardAnchor(n))
             /\ \A q \in rc.trace[n].existingIndex..(rc.trace[n + 1].existingIndex - 1) :
                   ~MatchToEnd(q, ForwardAnchor(n))
             /\ rc.trace[n + 1].resultLines = rc.trace[n].resultLines
             /\ \A m \in (n + 1)..Len(rc.trace) :
                   rc.trace[m].existingIndex >= rc.trace[n + 1].existingIndex
             /\ Len(rc.trace[Len(rc.trace)].resultLines) - Len(rc.trace[n].resultLines)
                   <= (Len(rcEditLines) - n)
                      + (Len(rcExistingLines) - rc.trace[n + 1].existingIndex)

\* a marker jumped over existing lines to its anchor, and the file written
\* is shorter than the existing one
C29_Witness ==
    /\ rc # <<>>
    /\ rc.called
    /\ \E n \in MarkerSteps :
          /\ rc.trace[n + 1].foundMatch
          /\ rc.trace[n + 1].existingIndex >= rc.trace[n].existingIndex + 2
          /\ FullMatch(rc.trace[n + 1].existingIndex, ForwardAnchor(n))
    /\ Len(Split(rc.result)) < Len(rcExistingLines)

DifferingSteps ==
    {n \in 1..Len(rcEditLines) :
        /\ ~IsSkipComment(rcEditLines[n])
        /\ rc.trace[n].existingIndex < Len(rcExistingLines)
        /\ At(rcExistingLines, rc.trace[n].existingIndex) # rcEditLines[n]}

\* the positions (0-based) after the cursor of edit line n, at most reach
\* lines ahead, that hold the edit line following it
AheadOf(n, reach) ==
    IF n < Len(rcEditLines) /\ ~IsSkipComment(rcEditLines[n + 1])
    THEN {k \in (rc.trace[n].existingIndex + 1)..
                Min(rc.trace[n].existingIndex + reach, Len(rcExistingLines) - 1) :
             At(rcExistingLines, k) = rcEditLines[n + 1]}
    ELSE {}

\* edit line n was emitted, then the original lines from the cursor up to
\* position k (exclusive), and the cursor is at position to
Resynchronised(n, k, to) ==
    /\ rc.trace[n + 1].resultLines =
          Append(rc.trace[n].resultLines, rcEditLines[n])
          \o SubSeq(rcExistingLines, rc.trace[n].existingIndex + 1, k)
    /\ rc.trace[n + 1].existingIndex = to

\* C31 as stated: on a non-marker edit line that differs from the original
\* line at the cursor, the edit line that follows is looked for up to 10
\* original lines ahead; when found the original lines in between are copied
\* and the cursor is past the match; otherwise the cursor is unchanged.
C31_LookAheadPastMatch ==
    (rc # <<>> /\ rc.called)
    => \A n \in DifferingSteps :
          IF AheadOf(n, 10) # {}
          THEN \E k \in AheadOf(n, 10) :
                  /\ \A k2 \in AheadOf(n, 10) : k <= k2
                  /\ Resynchronised(n, k, k + 1)
          ELSE Resynchronised(n, rc.trace[n].existingIndex,
                              rc.trace[n].existingIndex)

\* C31, amended: the edit line that follows is looked for among the 9
\* original lines after the line at the cursor; when found the original
\* lines from the cursor up to the match are copied and the cursor is at the
\* match; otherwise (not found, no following line, or a marker follows) only
\* the edit line is emitted and the cursor is unchanged.
C31_LookAheadToMatch ==
    (rc # <<>> /\ rc.called)
    => \A n \in DifferingSteps :
          IF AheadOf(n, 9) # {}
          THEN \E k \in AheadOf(n, 9) :
                  /\ \A k2 \in AheadOf(n, 9) : k <= k2
                  /\ Resynchronised(n, k, k)
          ELSE Resynchronised(n, rc.trace[n].existingIndex,
                              rc.trace[n].existingIndex)

\* the line x was followed by the line found nine positions ahead: the nine
\* lines before it were copied
C31_Witness ==
    /\ rc # <<>>
    /\ rc.called
    /\ rc.existingContent = Join(TwelveLines)
    /\ 1 \in DifferingSteps
    /\ AheadOf(1, 9) = {9}
    /\ rc.trace[2].existingIndex = 9
    /\ Len(rc.trace[2].resultLines) = 10

\* the original lines from position c (0-based) to the end
SuffixFrom(c) ==
    IF c < Len(rcExistingLines)
    THEN SubSeq(rcExistingLines, c + 1, Len(rcExistingLines))
    ELSE <<>>

\* C32: after the last edit line the original lines from the cursor to the
\* end are appended, verbatim and in order, and the content written is the
\* lines emitted so far followed by that suffix, also when the edit ends
\* with a marker.
C32_RemainingAppended ==
    (rc # <<>> /\ rc.called)
    => /\ Len(rc.trace) = Len(rcEditLines) + 2
       /\ rc.trace[Len(rc.trace)].resultLines =
             rc.trace[Len(rc.trace) - 1].resultLines
             \o SuffixFrom(rc.trace[Len(rc.trace) - 1].existingIndex)
       /\ rc.result = Join(rc.trace[Len(rc.trace)].resultLines)

\* an edit that ends with a marker was applied with the cursor left before
\* the last two lines of the file, which end the content written
C32_Witness ==
    /\ rc # <<>>
    /\ rc.called
    /\ IsSkipComment(rcEditLines[Len(rcEditLines)])
    /\ Len(rcExistingLines) = 3
    /\ rc.trace[Len(rc.trace) - 1].existingIndex = 1
    /\ rc.trace[Len(rc.trace) - 1].resultLines # <<>>
    /\ SubSeq(Split(rc.result), Len(Split(rc.result)) - 1, Len(Split(rc.result)))
          = SubSeq(rcExistingLines, 2, 3)

\* C33: the cursor of the reconciliation into the original lines starts at
\* 0, never decreases from one step to the next (marker, kept line,
\* re-synchronisation, final copy) and never exceeds the number of original
\* lines.
C33_ReconcileCursorMonotonic ==
    (rc # <<>> /\ rc.called)
    => /\ rc.trace[1].existingIndex = 0
       /\ \A n \in 1..Len(rc.trace) :
             /\ rc.trace[n].existingIndex <= Len(rcExistingLines)
             /\ n > 1 => rc.trace[n - 1].existingIndex <= rc.trace[n].existingIndex

\* r interleaves all of the lines e, in order, with lines of o taken in
\* order, each position of o at most once
RECURSIVE IsMerge(_, _, _)
IsMerge(r, e, o) ==
    IF r = <<>> THEN e = <<>>
    ELSE \/ /\ e # <<>>
            /\ Head(r) = Head(e)
            /\ IsMerge(Tail(r), Tail(e), o)
         \/ \E j \in 1..Len(o) :
               /\ o[j] = Head(r)
               /\ IsMerge(Tail(r), e, SubSeq(o, j + 1, Len(o)))

rcResultLines == rc.trace[Len(rc.trace)].resultLines

\* C34: the lines written by the reconciliation are an order-preserving
\* merge of the non-marker edit lines with original lines taken at increasing
\* positions, each position at most once; so they are never more than the
\* non-marker edit lines plus the original lines.
C34_ResultIsMerge ==
    (rc # <<>> /\ rc.called)
    => /\ IsMerge(rcResultLines, NonMarkers(rcEditLines), rcExistingLines)
       /\ Len(rcResultLines) <= Len(NonMarkers(rcEditLines)) + Len(rcExistingLines)

\* a re-synchronisation copied an original line between two edit lines and
\* the rest of the file followed
C34_Witness ==
    /\ rc # <<>>
    /\ rc.called
    /\ rc.existingContent = Join(<<Line("a"), Line("b"), Line("a")>>)
    /\ rcEditLines = <<Line("x"), Line("b"), Marker>>
    /\ rcResultLines = <<Line("x"), Line("a"), Line("b"), Line("a")>>

\* C35: when code_edit is the lines of the existing file with one or more
\* marker lines inserted, edit_file takes the reconciliation (action
\* 'edited') and the content written is the content of the file.
C35_IdentityEdit ==
    (/\ rc # <<>>
     /\ rc.called
     /\ hasSkipComments(rcEditLines)
     /\ NonMarkers(rcEditLines) = rcExistingLines)
    => /\ rc.result = rc.existingContent
       /\ EditExisting(rc.existingContent, rc.code_edit)
             = [action |-> "edited", content |-> rc.existingContent]

\* no line of the text is a hunk header
NoHeader(code_edit) ==
    \A n \in 1..Len(Split(code_edit)) : HunkHeaderMatch(Split(code_edit)[n]) = <<>>

\* C36: when code_edit for an existing file begins with @@ and none of its
\* lines is a hunk header, edit_file reports the action 'patched' and the
\* content of the file after the call is the content before it.
C36_HeaderlessPatchKeepsFile ==
    (/\ lastCall.op = "edit_file"
     /\ ~lastCall.threw
     /\ lastCall.before[lastCall.arg] # <<>>
     /\ StartsWith(lastCall.code_edit, <<"@", "@">>)
     /\ NoHeader(lastCall.code_edit))
    => /\ lastCall.action = "patched"
       /\ fs[lastCall.arg] = lastCall.before[lastCall.arg]

\* the text @@ x / +y / -a was applied to the file a, b, c
C36_Witness ==
    /\ lastCall.op = "edit_file"
    /\ ~lastCall.threw
    /\ lastCall.code_edit = Join(<<<<"@", "@", " ", "x">>, Add("y"), Del("a")>>)
    /\ lastCall.before[lastCall.arg] = <<Join(ABC)>>
    /\ lastCall.action = "patched"
    /\ fs[lastCall.arg] = <<Join(ABC)>>

\* the batch of the last response, once every call of it has its result
FinishedBatch ==
    IF pc = "dispatching" /\ pending = <<>> /\ messages # <<>>
       /\ messages[Len(messages)].role = "assistant"
       /\ Len(messages[Len(messages)].tool_calls) = Len(toolResults)
    THEN messages[Len(messages)].tool_calls
    ELSE <<>>

\* both calls of the batch are edit_file calls on the same path and both
\* returned
TwoEdits(batch) ==
    /\ Len(batch) = 2
    /\ \A k \in 1..2 :
          /\ batch[k].function.name = "edit_file"
          /\ ~IsToolError(toolResults[k])
    /\ JsonParse(batch[1].function.arguments).target_file
          = JsonParse(batch[2].function.arguments).target_file

\* C37: the tool calls of a batch run one after another in request order and
\* the read-transform-write of an edit_file call is not interleaved with
\* another call: after a batch of two edit_file calls on the same path the
\* writes are the first call's, then the second call's computed from the
\* content the first wrote, and the file holds the second write.
C37_BatchEditsSerialized ==
    TwoEdits(FinishedBatch)
    => \E first \in {JsonParse(FinishedBatch[1].function.arguments)} :
       \E second \in {JsonParse(FinishedBatch[2].function.arguments)} :
          /\ Len(effects) >= 2
          /\ effects[Len(effects) - 1].kind = "write"
          /\ effects[Len(effects) - 1].target = first.target_file
          /\ ~hasSkipComments(Split(first.code_edit))
                => effects[Len(effects) - 1].content = first.code_edit
          /\ effects[Len(effects)]
                = WriteEffect(second.target_file,
                              EditExisting(effects[Len(effects) - 1].content,
                                           second.code_edit).content)
          /\ fs[second.target_file] = <<effects[Len(effects)].content>>
          /\ toolResults[1].tool_call_id = FinishedBatch[1].id
          /\ toolResults[2].tool_call_id = FinishedBatch[2].id

\* a batch replaced the file by x and then edited it with z and a marker:
\* the file holds z and x
C37_Witness ==
    /\ TwoEdits(FinishedBatch)
    /\ JsonParse(FinishedBatch[1].function.arguments).code_edit = <<"x">>
    /\ hasSkipComments(Split(JsonParse(FinishedBatch[2].function.arguments).code_edit))
    /\ fs["f"] = <<<<"z", "\n", "x">>>>

====
